---- MODULE Spec2Model ----
(***************************************************************************)
(* RALPH Runner: the autonomous task orchestrator of the signal-based      *)
(* variant (src/unnamed/part_000).  PLAN.md holds the task definitions,    *)
(* STATUS.md the progress table, .ralph/task-<id>-status the per-task      *)
(* lease.  startRalph() is an async function: every `await` that really    *)
(* suspends (a timer, a prompt, a command sent to VS Code) is a program    *)
(* position of the run; the code between two such positions runs without   *)
(* interleaving of other in-process callbacks (single JavaScript thread),  *)
(* so it is one action.  stop(), a second start(), the manual reset, the   *)
(* delegate's writes and a crash of the process are the other actions.     *)
(* One iteration of the loop is one action; an iteration that ends in      *)
(* `continue`, and the startup, pass on to the next iteration without      *)
(* suspending (position "loop"): no command and no timer of the process    *)
(* runs until that iteration has been taken, only the environment (the     *)
(* delegate, the workspace, a crash) can act in between.  After an         *)
(* executed step the loop sleeps for the settle delay (position "settle"). *)
(*                                                                         *)
(* Time is counted in ticks; a sleep(ms) advances the clock of the wait    *)
(* that sleeps by exactly ms.                                              *)
(***************************************************************************)
EXTENDS Integers, Sequences, FiniteSets, TLC

\* ---- bounds of the model ------------------------------------------------
NumTasks == 2          \* task ids 1..NumTasks appear in PLAN.md / STATUS.md
MaxRuns == 2           \* startRalph() invocations alive at the same time

\* ---- configuration (getConfig), in ticks --------------------------------
MAX_AUTONOMOUS_LOOPS == 2
COPILOT_RESPONSE_POLL_MS == 1
COPILOT_MIN_WAIT_MS == 2
COPILOT_TIMEOUT_MS == 3

Ids == 1..NumTasks
Runs == 1..MaxRuns
Null == 0              \* null / no id (task ids and run ids start at 1)

\* ---- types --------------------------------------------------------------
\* PlanStep: the action and whether the payload field the action needs
\* (command / path / instruction) is present.
StepActions == {"run_terminal", "create_file", "copilot_task", "other"}
PlanStep == [action : StepActions, payload : BOOLEAN]
NoStep == [action |-> "absent", payload |-> FALSE]   \* id not in PLAN.md

\* PLAN.md documents parsePlan gets no step from: a steps array that is empty or
\* missing, no ```json block, a block that JSON.parse rejects
EmptyPlan == [i \in Ids |-> NoStep]
NoJsonBlock == [i \in Ids |-> [action |-> "<no json block>", payload |-> FALSE]]
InvalidJson == [i \in Ids |-> [action |-> "<invalid json>", payload |-> FALSE]]

\* parsePlan: the steps of the document, none if it cannot be parsed; the steps
\* are not validated
parsePlan(doc) == IF doc \in {NoJsonBlock, InvalidJson} THEN EmptyPlan ELSE doc

StepStatus == {"pending", "in-progress", "done", "failed", "skipped"}
\* TrackedStep (a row of STATUS.md); the timestamp is "" or a time ("ts").
NoRow == [status |-> "norow", timestamp |-> "", notes |-> ""]
\* STATUS.md without any row, and no STATUS.md at all
EmptyDoc == [i \in Ids |-> NoRow]
AbsentDoc == [i \in Ids |-> [status |-> "<no file>", timestamp |-> "", notes |-> ""]]

\* content of a lease file; NoFile is the absent file
NoFile == "<absent>"
LeaseContents == {NoFile, "inprogress", "completed"}

VARIABLES
    plan,           \* PLAN.md: [Ids -> PlanStep \cup {NoStep}]
    progress,       \* STATUS.md rows: [Ids -> TrackedStep \cup {NoRow}]
    lease,          \* .ralph/task-<id>-status: [Ids -> LeaseContents]
    evidence,       \* ids whose outcome the idempotency probe finds on disk
    delegated,      \* ids whose prompt the delegate holds and has not answered
    isRunning,      \* global isRunning
    cancelToken,    \* global cancelToken: "null", or the state of the token source
                    \* it refers to ("live", "cancelled")
    pc,             \* [Runs -> position of the invocation of startRalph]
    loopsExecuted,  \* [Runs -> Nat]
    cur,            \* [Runs -> id]: stalledTaskId at the prompt, stepDef.id later
    elapsed,        \* [Runs -> Nat]: Date.now() - startTime of the current wait
    quickStatus,    \* the Quick Status counts of STATUS.md
    wait,           \* one completion wait taken on its own (SpecWait), see below
    store,          \* the stores and their operations taken on their own (SpecStore)
    hist            \* what has happened to the runs and the prompts (SpecRuns), see below

vars == <<plan, progress, lease, evidence, delegated, isRunning, cancelToken,
          pc, loopsExecuted, cur, elapsed, quickStatus>>

\* ---- RalphStateManager ----------------------------------------------------
\* a setInProgress that writes nothing
setInProgress_NoWrite(L, taskId) == L

setInProgress(L, taskId) == [L EXCEPT ![taskId] = "inprogress"]

setCompleted(L, taskId) == [L EXCEPT ![taskId] = "completed"]

\* a reader that compares the content as it is
Trim_Nothing(content) == content

\* String.prototype.trim on the contents a status file is given in this model
Trim(content) ==
    CASE content \in {"completed\n", " completed"} -> "completed"
      [] content \in {"inprogress\n", " inprogress "} -> "inprogress"
      [] content = "\n" -> ""
      [] OTHER -> content

getTaskStatus(L, taskId) ==
    LET content == Trim(L[taskId]) IN
    IF L[taskId] # NoFile /\ content \in {"inprogress", "completed"} THEN content ELSE "none"

\* the ids getInProgressTaskId may return (readdir order is not specified):
\* the empty set stands for null
InProgressTaskIds(L) == {i \in Ids : getTaskStatus(L, i) = "inprogress"}

isAnyInProgress(L) == InProgressTaskIds(L) # {}

clearStalledTask(L, taskId) == [L EXCEPT ![taskId] = NoFile]

\* ---- STATUS.md parser and writer ------------------------------------------
\* parseState: the ids that have a row
parseState(P) == IF P = AbsentDoc THEN {} ELSE {i \in Ids : P[i] # NoRow}

\* a filter that leaves out the skipped rows only, so that a done row is selected
Eligible_NotSkipped(P) == {i \in parseState(P) : P[i].status # "skipped"}

Eligible(P) == {i \in parseState(P) : P[i].status # "done" /\ P[i].status # "skipped"}

\* a scheduler that resumes in-progress steps and takes pending ones only
findNextPending_PendingOnly(P) ==
    LET S == {i \in parseState(P) : P[i].status \in {"pending", "in-progress"}} IN
    IF S = {} THEN Null ELSE CHOOSE i \in S : \A j \in S : i <= j

\* a scheduler that ranges over the ids and takes a missing row for a pending one
findNextPending_MissingRowIsPending(P) ==
    LET S == {i \in Ids : P # AbsentDoc /\ (P[i] = NoRow \/ P[i].status \notin {"done", "skipped"})}
    IN  IF S = {} THEN Null ELSE CHOOSE i \in S : \A j \in S : i <= j

findNextPending(P) ==
    IF Eligible(P) = {} THEN Null
    ELSE CHOOSE i \in Eligible(P) : \A j \in Eligible(P) : i <= j

\* a writer that stamps every terminal status, skipped included
updateStepStatus_StampSkipped(P, stepId, status, notes) ==
    IF P[stepId] = NoRow THEN P
    ELSE [P EXCEPT ![stepId] =
            [status |-> status,
             timestamp |-> IF status \in {"done", "failed", "skipped"} THEN "ts" ELSE "",
             notes |-> notes]]

updateStepStatus(P, stepId, status, notes) ==
    IF P[stepId] = NoRow THEN P
    ELSE [P EXCEPT ![stepId] =
            [status |-> status,
             timestamp |-> IF status = "done" \/ status = "failed" THEN "ts" ELSE "",
             notes |-> notes]]

\* ---- step verification ------------------------------------------------------
\* a probe that takes any outcome found in the workspace, whatever the action
verifyStepAlreadyDone_AnyAction(step, id, E) == id \in E

verifyStepAlreadyDone(step, id, E) ==
    CASE step.action = "create_file" -> step.payload /\ id \in E
      [] step.action = "run_terminal" -> step.payload /\ id \in E
      [] OTHER -> FALSE

\* ---- executeStep: what the call does before its first suspension ------------
\* "throw": it rejects at once with the given message; "terminal": it waits for
\* the terminal timers; "copilot": it sends a prompt and waits for the lease.
ExecKind_PayloadNotChecked(step) ==
    CASE step.action = "run_terminal" -> "terminal"
      [] step.action = "create_file" -> "copilot"
      [] step.action = "copilot_task" -> "copilot"
      [] OTHER -> "throw"

ExecKind(step) ==
    CASE step.action = "run_terminal" -> IF step.payload THEN "terminal" ELSE "throw"
      [] step.action = "create_file" -> IF step.payload THEN "copilot" ELSE "throw"
      [] step.action = "copilot_task" -> "copilot"
      [] OTHER -> "throw"

ExecError(step) ==
    CASE step.action = "run_terminal" -> "run_terminal step has no command"
      [] step.action = "create_file" -> "create_file step has no path"
      [] OTHER -> "Unknown action type: " \o step.action

TimeoutError(taskId) == "Copilot timed out on task " \o ToString(taskId)

CancelError == "Cancelled by user"

\* cancelToken?.token.isCancellationRequested
IsCancellationRequested == cancelToken = "cancelled"

\* ---- updateQuickStatus ------------------------------------------------------
Count(P, S) == Cardinality({i \in parseState(P) : P[i].status \in S})

QuickStatusOf(P) ==
    [total |-> Cardinality(parseState(P)),
     completed |-> Count(P, {"done"}),
     inProgress |-> Count(P, {"in-progress"}),
     failed |-> Count(P, {"failed"}),
     pending |-> Count(P, {"pending", "skipped"})]

\* ---- initial state ----------------------------------------------------------
PendingRow == [status |-> "pending", timestamp |-> "", notes |-> ""]

Plans == [Ids -> PlanStep \cup {NoStep}]

\* the plans the runs are checked on: the step kinds in rotation, so that every
\* behaviour of executeStep (a prompt to the delegate with or without an
\* idempotency probe, a terminal command, a step that throws at once) and an id
\* that PLAN.md does not hold occur at every position
Step(action, payload) == [action |-> action, payload |-> payload]

InitSteps == <<Step("copilot_task", TRUE), Step("create_file", TRUE),
               Step("run_terminal", TRUE), Step("run_terminal", FALSE), NoStep,
               Step("other", TRUE), Step("create_file", FALSE),
               Step("copilot_task", FALSE)>>

\* and the documents that yield no step
InitPlans ==
    {[i \in Ids |-> InitSteps[((i + k) % Len(InitSteps)) + 1]] : k \in 1..Len(InitSteps)}
        \cup {EmptyPlan, NoJsonBlock, InvalidJson}

\* STATUS.md at the start: a pending row for every id, a row for the first id
\* only, no row, no file
InitProgress ==
    {[i \in Ids |-> PendingRow], [i \in Ids |-> IF i = 1 THEN PendingRow ELSE NoRow],
     EmptyDoc, AbsentDoc}

TypeOK ==
    /\ plan \in Plans \cup {NoJsonBlock, InvalidJson}
    /\ progress = AbsentDoc
          \/ \A i \in Ids : progress[i] = NoRow \/ progress[i].status \in StepStatus
    /\ lease \in [Ids -> LeaseContents]
    /\ evidence \subseteq Ids
    /\ delegated \subseteq Ids
    /\ isRunning \in BOOLEAN
    /\ cancelToken \in {"null", "live", "cancelled"}
    /\ pc \in [Runs -> {"idle", "prompt", "loop", "settle", "guard", "sending",
                        "waiting", "terminal"}]
    /\ loopsExecuted \in [Runs -> 0..MAX_AUTONOMOUS_LOOPS]
    /\ cur \in [Runs -> Ids \cup {Null}]
    /\ elapsed \in [Runs -> Nat]

\* no completion wait is taken on its own
NoWait == [strategy |-> "none", pc |-> "off"]

\* no store is taken on its own
NoStore == [kind |-> "none"]

\* no history is kept
NoHist == [kept |-> FALSE]

\* the extension is activated and no command has been invoked
InitRun ==
    /\ lease = [i \in Ids |-> NoFile]
    /\ evidence = {}
    /\ delegated = {}
    /\ isRunning = FALSE
    /\ cancelToken = "null"
    /\ pc = [r \in Runs |-> "idle"]
    /\ loopsExecuted = [r \in Runs |-> 0]
    /\ cur = [r \in Runs |-> Null]
    /\ elapsed = [r \in Runs |-> 0]
    /\ quickStatus = QuickStatusOf(progress)

Init ==
    /\ hist = NoHist
    /\ plan \in InitPlans
    /\ progress \in InitProgress
    /\ InitRun
    /\ wait = NoWait
    /\ store = NoStore

\* some invocation is running (it is between two suspensions): the process
\* handles no command and no timer before it suspends
Busy == \E r \in Runs : pc[r] = "loop"

\* ---- startRalph: the end of an invocation ------------------------------------
\* the invocation of run r is over: its locals are gone
Return(r) ==
    /\ pc' = [pc EXCEPT ![r] = "idle"]
    /\ loopsExecuted' = [loopsExecuted EXCEPT ![r] = 0]
    /\ cur' = [cur EXCEPT ![r] = Null]
    /\ elapsed' = [elapsed EXCEPT ![r] = 0]

\* the code after the while loop
ExitLoop(r) ==
    /\ isRunning' = FALSE
    /\ cancelToken' = "null"
    /\ Return(r)
    /\ UNCHANGED <<plan, progress, lease, evidence, delegated, quickStatus>>

\* an error leaves startRalph through the `await`: nothing after the loop runs
Propagate(r) ==
    /\ Return(r)
    /\ UNCHANGED <<plan, progress, lease, evidence, delegated, isRunning,
                   cancelToken, quickStatus>>

\* ---- startRalph: the end of an iteration that executed the step --------------
\* the try/catch around executeStep, loopsExecuted++, updateQuickStatus and the
\* settle delay; L and P are the lease store and the table executeStep left
\* the same, but a failed step ends the run
Recorded_HaltOnFailure(r, L, P, stepId, ok, errMsg) ==
    /\ lease' = setCompleted(L, stepId)
    /\ progress' = IF ok THEN updateStepStatus(P, stepId, "done", "")
                   ELSE updateStepStatus(P, stepId, "failed", errMsg)
    /\ quickStatus' = QuickStatusOf(progress')
    /\ loopsExecuted' = [loopsExecuted EXCEPT ![r] = IF ok THEN @ + 1 ELSE 0]
    /\ pc' = [pc EXCEPT ![r] = IF ok THEN "settle" ELSE "idle"]
    /\ cur' = [cur EXCEPT ![r] = Null]
    /\ elapsed' = [elapsed EXCEPT ![r] = 0]

\* the same, but the iteration is not counted
Recorded_NotCounted(r, L, P, stepId, ok, errMsg) ==
    /\ lease' = setCompleted(L, stepId)
    /\ progress' = IF ok THEN updateStepStatus(P, stepId, "done", "")
                   ELSE updateStepStatus(P, stepId, "failed", errMsg)
    /\ quickStatus' = QuickStatusOf(progress')
    /\ loopsExecuted' = loopsExecuted
    /\ pc' = [pc EXCEPT ![r] = "settle"]
    /\ cur' = [cur EXCEPT ![r] = Null]
    /\ elapsed' = [elapsed EXCEPT ![r] = 0]

\* the same, but a cancelled step keeps its lease for the startup recovery
Recorded_KeepLeaseOnCancel(r, L, P, stepId, ok, errMsg) ==
    /\ lease' = IF ~ok /\ errMsg = "Cancelled by user" THEN L ELSE setCompleted(L, stepId)
    /\ progress' = IF ok THEN updateStepStatus(P, stepId, "done", "")
                   ELSE updateStepStatus(P, stepId, "failed", errMsg)
    /\ quickStatus' = QuickStatusOf(progress')
    /\ loopsExecuted' = [loopsExecuted EXCEPT ![r] = @ + 1]
    /\ pc' = [pc EXCEPT ![r] = "settle"]
    /\ cur' = [cur EXCEPT ![r] = Null]
    /\ elapsed' = [elapsed EXCEPT ![r] = 0]

Recorded(r, L, P, stepId, ok, errMsg) ==
    /\ lease' = setCompleted(L, stepId)
    /\ progress' = IF ok THEN updateStepStatus(P, stepId, "done", "")
                   ELSE updateStepStatus(P, stepId, "failed", errMsg)
    /\ quickStatus' = QuickStatusOf(progress')
    /\ loopsExecuted' = [loopsExecuted EXCEPT ![r] = @ + 1]
    /\ pc' = [pc EXCEPT ![r] = "settle"]
    /\ cur' = [cur EXCEPT ![r] = Null]
    /\ elapsed' = [elapsed EXCEPT ![r] = 0]

\* ---- waitForCopilotCompletion --------------------------------------------------
\* the head of its while loop, reached with `e` ticks elapsed: the timeout, the
\* cancellation check, then the sleep
\* the same, but a timeout counts as completion (the policy of the idle heuristic)
WaitLoop_OptimisticTimeout(r, e) ==
    IF ~(e < COPILOT_TIMEOUT_MS)
    THEN /\ Recorded(r, lease, progress, cur[r], TRUE, "")
         /\ UNCHANGED <<plan, evidence, delegated, isRunning, cancelToken>>
    ELSE IF IsCancellationRequested
    THEN /\ Recorded(r, lease, progress, cur[r], FALSE, CancelError)
         /\ UNCHANGED <<plan, evidence, delegated, isRunning, cancelToken>>
    ELSE /\ pc' = [pc EXCEPT ![r] = "waiting"]
         /\ elapsed' = [elapsed EXCEPT ![r] = e]
         /\ UNCHANGED <<plan, progress, lease, evidence, delegated, isRunning,
                        cancelToken, loopsExecuted, cur, quickStatus>>

\* the same, but the loop has no timeout: it sleeps until the lease reads completed
\* or the run is stopped (the time waited is not counted beyond the timeout)
WaitLoop_NoTimeout(r, e) ==
    IF IsCancellationRequested
    THEN /\ Recorded(r, lease, progress, cur[r], FALSE, CancelError)
         /\ UNCHANGED <<plan, evidence, delegated, isRunning, cancelToken>>
    ELSE /\ pc' = [pc EXCEPT ![r] = "waiting"]
         /\ elapsed' = [elapsed EXCEPT ![r] = IF e < COPILOT_TIMEOUT_MS THEN e ELSE elapsed[r]]
         /\ UNCHANGED <<plan, progress, lease, evidence, delegated, isRunning,
                        cancelToken, loopsExecuted, cur, quickStatus>>

WaitLoop(r, e) ==
    IF ~(e < COPILOT_TIMEOUT_MS)
    THEN /\ Recorded(r, lease, progress, cur[r], FALSE, TimeoutError(cur[r]))
         /\ UNCHANGED <<plan, evidence, delegated, isRunning, cancelToken>>
    ELSE IF IsCancellationRequested
    THEN /\ Recorded(r, lease, progress, cur[r], FALSE, CancelError)
         /\ UNCHANGED <<plan, evidence, delegated, isRunning, cancelToken>>
    ELSE /\ pc' = [pc EXCEPT ![r] = "waiting"]
         /\ elapsed' = [elapsed EXCEPT ![r] = e]
         /\ UNCHANGED <<plan, progress, lease, evidence, delegated, isRunning,
                        cancelToken, loopsExecuted, cur, quickStatus>>

\* sendToCopilot: the chat command has returned; the wait begins
SendDone(r) ==
    /\ pc[r] = "sending"
    /\ ~Busy
    /\ WaitLoop(r, 0)

\* the sleep of one poll is over
Poll(r) ==
    /\ pc[r] = "waiting"
    /\ ~Busy
    /\ LET e == elapsed[r] + COPILOT_RESPONSE_POLL_MS IN
       IF e >= COPILOT_MIN_WAIT_MS /\ getTaskStatus(lease, cur[r]) = "completed"
       THEN /\ Recorded(r, lease, progress, cur[r], TRUE, "")
            /\ UNCHANGED <<plan, evidence, delegated, isRunning, cancelToken>>
       ELSE WaitLoop(r, e)

\* ---- executeTerminal ------------------------------------------------------------
\* the auto-close timer (or the terminal closing) resolves the promise
TerminalDone(r) ==
    /\ pc[r] = "terminal"
    /\ ~Busy
    /\ Recorded(r, lease, progress, cur[r], TRUE, "")
    /\ UNCHANGED <<plan, evidence, delegated, isRunning, cancelToken>>

\* ---- startRalph: dispatch ---------------------------------------------------------
\* from setInProgress to the first suspension of executeStep; L is the lease store
\* ensureNoActiveTask left
Dispatch(r, stepId, L) ==
    LET L1 == setInProgress(L, stepId)
        P1 == updateStepStatus(progress, stepId, "in-progress", "")
        kind == ExecKind(plan[stepId])
    IN  CASE kind = "throw" ->
               /\ Recorded(r, L1, P1, stepId, FALSE, ExecError(plan[stepId]))
               /\ UNCHANGED <<plan, evidence, delegated, isRunning, cancelToken>>
          [] kind = "terminal" ->
               /\ lease' = L1
               /\ progress' = P1
               /\ pc' = [pc EXCEPT ![r] = "terminal"]
               /\ cur' = [cur EXCEPT ![r] = stepId]
               /\ elapsed' = [elapsed EXCEPT ![r] = 0]
               /\ UNCHANGED <<plan, evidence, delegated, isRunning, cancelToken,
                              loopsExecuted, quickStatus>>
          [] kind = "copilot" ->
               /\ lease' = L1
               /\ progress' = P1
               /\ delegated' = delegated \cup {stepId}
               /\ pc' = [pc EXCEPT ![r] = "sending"]
               /\ cur' = [cur EXCEPT ![r] = stepId]
               /\ elapsed' = [elapsed EXCEPT ![r] = 0]
               /\ UNCHANGED <<plan, evidence, isRunning, cancelToken,
                              loopsExecuted, quickStatus>>

\* ---- ensureNoActiveTask -------------------------------------------------------------
\* the head of its while loop with `e` ticks waited, for the step `stepId`
GuardLoop(r, stepId, e) ==
    IF e < COPILOT_TIMEOUT_MS
    THEN IF IsCancellationRequested
         THEN Propagate(r)
         ELSE /\ pc' = [pc EXCEPT ![r] = "guard"]
              /\ cur' = [cur EXCEPT ![r] = stepId]
              /\ elapsed' = [elapsed EXCEPT ![r] = e]
              /\ UNCHANGED <<plan, progress, lease, evidence, delegated, isRunning,
                             cancelToken, loopsExecuted, quickStatus>>
    ELSE \E timedOutId \in InProgressTaskIds(lease) :
              Dispatch(r, stepId, clearStalledTask(lease, timedOutId))

\* a guard that never waits
ensureNoActiveTask_NoGuard(r, stepId) == Dispatch(r, stepId, lease)

ensureNoActiveTask(r, stepId) ==
    IF ~isAnyInProgress(lease) THEN Dispatch(r, stepId, lease)
    ELSE GuardLoop(r, stepId, 0)

\* the sleep of one poll of ensureNoActiveTask is over
GuardPoll(r) ==
    /\ pc[r] = "guard"
    /\ ~Busy
    /\ IF ~isAnyInProgress(lease) THEN Dispatch(r, cur[r], lease)
       ELSE GuardLoop(r, cur[r], elapsed[r] + COPILOT_RESPONSE_POLL_MS)

\* ---- startRalph: one iteration of the loop, up to its first suspension ---------------
\* the condition of the while loop
LoopCondition_NoRunningCheck(r) == loopsExecuted[r] < MAX_AUTONOMOUS_LOOPS

LoopCondition(r) == loopsExecuted[r] < MAX_AUTONOMOUS_LOOPS /\ isRunning

\* an iteration that does not count a step found already done
Iterate_VerifiedNotCounted(r) ==
    /\ pc[r] = "loop" \/ (pc[r] = "settle" /\ ~Busy)
    /\ IF ~LoopCondition(r) THEN ExitLoop(r)
       ELSE IF IsCancellationRequested THEN ExitLoop(r)
       ELSE LET nextStep == findNextPending(progress) IN
            IF nextStep = Null THEN ExitLoop(r)
            ELSE IF plan[nextStep] = NoStep
            THEN /\ progress' = updateStepStatus(progress, nextStep, "skipped",
                                                 "Step not found in PLAN.md")
                 /\ loopsExecuted' = [loopsExecuted EXCEPT ![r] = @ + 1]
                 /\ pc' = [pc EXCEPT ![r] = "loop"]
                 /\ UNCHANGED <<plan, lease, evidence, delegated, isRunning, cancelToken,
                                cur, elapsed, quickStatus>>
            ELSE IF verifyStepAlreadyDone(plan[nextStep], nextStep, evidence)
            THEN /\ progress' = updateStepStatus(progress, nextStep, "done",
                                                 "Verified already complete")
                 /\ quickStatus' = QuickStatusOf(progress')
                 /\ pc' = [pc EXCEPT ![r] = "loop"]
                 /\ UNCHANGED <<plan, lease, evidence, delegated, isRunning, cancelToken,
                                cur, elapsed, loopsExecuted>>
            ELSE ensureNoActiveTask(r, nextStep)

\* the same loop body, but an entry that no step of the plan matches is recorded
\* failed instead of skipped
Iterate_MissingStepRecordedFailed(r) ==
    /\ pc[r] = "loop" \/ (pc[r] = "settle" /\ ~Busy)
    /\ IF ~LoopCondition(r) THEN ExitLoop(r)
       ELSE IF IsCancellationRequested THEN ExitLoop(r)
       ELSE LET nextStep == findNextPending(progress) IN
            IF nextStep = Null THEN ExitLoop(r)
            ELSE IF plan[nextStep] = NoStep
            THEN /\ progress' = updateStepStatus(progress, nextStep, "failed",
                                                 "Step not found in PLAN.md")
                 /\ loopsExecuted' = [loopsExecuted EXCEPT ![r] = @ + 1]
                 /\ pc' = [pc EXCEPT ![r] = "loop"]
                 /\ UNCHANGED <<plan, lease, evidence, delegated, isRunning, cancelToken,
                                cur, elapsed, quickStatus>>
            ELSE IF verifyStepAlreadyDone(plan[nextStep], nextStep, evidence)
            THEN /\ progress' = updateStepStatus(progress, nextStep, "done",
                                                 "Verified already complete")
                 /\ loopsExecuted' = [loopsExecuted EXCEPT ![r] = @ + 1]
                 /\ quickStatus' = QuickStatusOf(progress')
                 /\ pc' = [pc EXCEPT ![r] = "loop"]
                 /\ UNCHANGED <<plan, lease, evidence, delegated, isRunning, cancelToken,
                                cur, elapsed>>
            ELSE ensureNoActiveTask(r, nextStep)

Iterate(r) ==
    /\ pc[r] = "loop" \/ (pc[r] = "settle" /\ ~Busy)
    /\ IF ~LoopCondition(r) THEN ExitLoop(r)
       ELSE IF IsCancellationRequested THEN ExitLoop(r)
       ELSE LET nextStep == findNextPending(progress) IN
            IF nextStep = Null THEN ExitLoop(r)
            ELSE IF plan[nextStep] = NoStep
            THEN /\ progress' = updateStepStatus(progress, nextStep, "skipped",
                                                 "Step not found in PLAN.md")
                 /\ loopsExecuted' = [loopsExecuted EXCEPT ![r] = @ + 1]
                 /\ pc' = [pc EXCEPT ![r] = "loop"]
                 /\ UNCHANGED <<plan, lease, evidence, delegated, isRunning, cancelToken,
                                cur, elapsed, quickStatus>>
            ELSE IF verifyStepAlreadyDone(plan[nextStep], nextStep, evidence)
            THEN /\ progress' = updateStepStatus(progress, nextStep, "done",
                                                 "Verified already complete")
                 /\ loopsExecuted' = [loopsExecuted EXCEPT ![r] = @ + 1]
                 /\ quickStatus' = QuickStatusOf(progress')
                 /\ pc' = [pc EXCEPT ![r] = "loop"]
                 /\ UNCHANGED <<plan, lease, evidence, delegated, isRunning, cancelToken,
                                cur, elapsed>>
            ELSE ensureNoActiveTask(r, nextStep)

\* ---- startRalph: startup ----------------------------------------------------------------
\* a startup that enters the loop whatever parsePlan returned
BeginRun_NoEmptyPlanCheck(r, L) ==
    /\ lease' = L
    /\ cancelToken' = "live"
    /\ isRunning' = TRUE
    /\ pc' = [pc EXCEPT ![r] = "loop"]
    /\ loopsExecuted' = [loopsExecuted EXCEPT ![r] = 0]
    /\ cur' = [cur EXCEPT ![r] = Null]
    /\ elapsed' = [elapsed EXCEPT ![r] = 0]
    /\ UNCHANGED <<plan, progress, evidence, delegated, quickStatus>>

\* from `isRunning = true` to the while loop
BeginRun(r, L) ==
    /\ lease' = L
    /\ cancelToken' = "live"
    /\ IF parsePlan(plan) = EmptyPlan
       THEN \* parsePlan returned no steps
            /\ isRunning' = FALSE
            /\ Return(r)
       ELSE /\ isRunning' = TRUE
            /\ pc' = [pc EXCEPT ![r] = "loop"]
            /\ loopsExecuted' = [loopsExecuted EXCEPT ![r] = 0]
            /\ cur' = [cur EXCEPT ![r] = Null]
            /\ elapsed' = [elapsed EXCEPT ![r] = 0]
    /\ UNCHANGED <<plan, progress, evidence, delegated, quickStatus>>

\* fs.existsSync(planPath) && fs.existsSync(statePath)
FilesExist == progress # AbsentDoc

\* a start that takes a missing STATUS.md for an empty one
startRalph_NoFileCheck(r) ==
    /\ pc[r] = "idle"
    /\ ~Busy
    /\ \A q \in Runs : q < r => pc[q] # "idle"
    /\ IF isRunning THEN UNCHANGED vars
       ELSE IF isAnyInProgress(lease)
       THEN \E stalledTaskId \in InProgressTaskIds(lease) :
              /\ pc' = [pc EXCEPT ![r] = "prompt"]
              /\ cur' = [cur EXCEPT ![r] = stalledTaskId]
              /\ UNCHANGED <<plan, progress, lease, evidence, delegated, isRunning,
                             cancelToken, loopsExecuted, elapsed, quickStatus>>
       ELSE BeginRun(r, lease)

\* a start that does not look at isRunning
startRalph_NoRunningCheck(r) ==
    /\ pc[r] = "idle"
    /\ ~Busy
    /\ \A q \in Runs : q < r => pc[q] # "idle"
    /\ IF ~FilesExist THEN UNCHANGED vars
       ELSE IF isAnyInProgress(lease)
       THEN \E stalledTaskId \in InProgressTaskIds(lease) :
              /\ pc' = [pc EXCEPT ![r] = "prompt"]
              /\ cur' = [cur EXCEPT ![r] = stalledTaskId]
              /\ UNCHANGED <<plan, progress, lease, evidence, delegated, isRunning,
                             cancelToken, loopsExecuted, elapsed, quickStatus>>
       ELSE BeginRun(r, lease)

\* a start that clears a stalled lease without asking
startRalph_AutoClear(r) ==
    /\ pc[r] = "idle"
    /\ \A q \in Runs : q < r => pc[q] # "idle"
    /\ ~Busy
    /\ IF isRunning THEN UNCHANGED vars
       ELSE IF ~FilesExist THEN UNCHANGED vars
       ELSE IF isAnyInProgress(lease)
       THEN \E stalledTaskId \in InProgressTaskIds(lease) :
              BeginRun(r, clearStalledTask(lease, stalledTaskId))
       ELSE BeginRun(r, lease)

\* the command 'ralph-runner.start'; the invocation takes the first free slot
startRalph(r) ==
    /\ pc[r] = "idle"
    /\ ~Busy
    /\ \A q \in Runs : q < r => pc[q] # "idle"
    /\ IF isRunning THEN UNCHANGED vars
       ELSE IF ~FilesExist THEN UNCHANGED vars
       ELSE IF isAnyInProgress(lease)
       THEN \E stalledTaskId \in InProgressTaskIds(lease) :
              /\ pc' = [pc EXCEPT ![r] = "prompt"]
              /\ cur' = [cur EXCEPT ![r] = stalledTaskId]
              /\ UNCHANGED <<plan, progress, lease, evidence, delegated, isRunning,
                             cancelToken, loopsExecuted, elapsed, quickStatus>>
       ELSE BeginRun(r, lease)

PromptAnswers == {"Clear & Retry", "Cancel", "dismissed"}

\* a prompt that aborts on 'Cancel' only, so that a dismissed prompt clears too
PromptAnswer_AbortOnCancelOnly(r, action) ==
    /\ pc[r] = "prompt"
    /\ ~Busy
    /\ IF action = "Cancel" THEN Propagate(r)
       ELSE BeginRun(r, clearStalledTask(lease, cur[r]))

\* the operator answers the stalled-task warning
PromptAnswer(r, action) ==
    /\ pc[r] = "prompt"
    /\ ~Busy
    /\ IF action # "Clear & Retry" THEN Propagate(r)
       ELSE BeginRun(r, clearStalledTask(lease, cur[r]))

\* ---- stopRalph ------------------------------------------------------------------------------
stopRalph ==
    /\ ~Busy
    /\ IF ~isRunning THEN UNCHANGED vars
       ELSE /\ cancelToken' = IF cancelToken = "null" THEN "null" ELSE "cancelled"
            /\ isRunning' = FALSE
            /\ UNCHANGED <<plan, progress, lease, evidence, delegated, pc,
                           loopsExecuted, cur, elapsed, quickStatus>>

\* ---- resetStep -------------------------------------------------------------------------------
\* a reset that offers the skipped rows too
resetStep_AnyTerminal(stepId) ==
    /\ ~Busy
    /\ stepId \in parseState(progress)
    /\ progress[stepId].status \in {"failed", "done", "in-progress", "skipped"}
    /\ progress' = updateStepStatus(progress, stepId, "pending", "")
    /\ quickStatus' = QuickStatusOf(progress')
    /\ UNCHANGED <<plan, lease, evidence, delegated, isRunning, cancelToken,
                   pc, loopsExecuted, cur, elapsed>>

\* the list of steps is made of the failed, done and in-progress rows; the step
\* picked from it is written whatever its status is by then.  Between the list
\* and the pick the status of a listed row can only have become another of these
\* three or pending (a row is recorded skipped only from pending, PLAN.md being
\* unchanged), and a reset of a pending row writes what the row holds: the
\* command is one action, taken when the step is picked.
resetStep(stepId) ==
    /\ ~Busy
    /\ stepId \in parseState(progress)
    /\ progress[stepId].status \in {"failed", "done", "in-progress"}
    /\ progress' = updateStepStatus(progress, stepId, "pending", "")
    /\ quickStatus' = QuickStatusOf(progress')
    /\ UNCHANGED <<plan, lease, evidence, delegated, isRunning, cancelToken,
                   pc, loopsExecuted, cur, elapsed>>

\* ---- the environment ---------------------------------------------------------------------------
\* the delegate ends its work on a prompt: it writes `completed` to the lease file
DelegateComplete(taskId) ==
    /\ taskId \in delegated
    /\ lease' = setCompleted(lease, taskId)
    /\ delegated' = delegated \ {taskId}
    /\ UNCHANGED <<plan, progress, evidence, isRunning, cancelToken, pc,
                   loopsExecuted, cur, elapsed, quickStatus>>

\* the outcome of a step appears in the workspace (the file, the directory)
WorkspaceChange(taskId) ==
    /\ taskId \notin evidence
    /\ plan[taskId].action \in {"create_file", "run_terminal"}
    /\ plan[taskId].payload
    /\ evidence' = evidence \cup {taskId}
    /\ UNCHANGED <<plan, progress, lease, delegated, isRunning, cancelToken,
                   pc, loopsExecuted, cur, elapsed, quickStatus>>

\* the extension host dies: the globals and every invocation are gone, the files stay
Crash ==
    /\ \E r \in Runs : pc[r] # "idle"
    /\ isRunning' = FALSE
    /\ cancelToken' = "null"
    /\ pc' = [r \in Runs |-> "idle"]
    /\ loopsExecuted' = [r \in Runs |-> 0]
    /\ cur' = [r \in Runs |-> Null]
    /\ elapsed' = [r \in Runs |-> 0]
    /\ UNCHANGED <<plan, progress, lease, evidence, delegated, quickStatus>>

Next ==
    \/ \E r \in Runs : startRalph(r) /\ UNCHANGED <<wait, store, hist>>
    \/ \E r \in Runs : \E action \in PromptAnswers : PromptAnswer(r, action) /\ UNCHANGED <<wait, store, hist>>
    \/ \E r \in Runs : Iterate(r) /\ UNCHANGED <<wait, store, hist>>
    \/ \E r \in Runs : GuardPoll(r) /\ UNCHANGED <<wait, store, hist>>
    \/ \E r \in Runs : SendDone(r) /\ UNCHANGED <<wait, store, hist>>
    \/ \E r \in Runs : Poll(r) /\ UNCHANGED <<wait, store, hist>>
    \/ \E r \in Runs : TerminalDone(r) /\ UNCHANGED <<wait, store, hist>>
    \/ stopRalph /\ UNCHANGED <<wait, store, hist>>
    \/ \E i \in Ids : resetStep(i) /\ UNCHANGED <<wait, store, hist>>
    \/ \E i \in Ids : DelegateComplete(i) /\ UNCHANGED <<wait, store, hist>>
    \/ \E i \in Ids : WorkspaceChange(i) /\ UNCHANGED <<wait, store, hist>>
    \/ Crash /\ UNCHANGED <<wait, store, hist>>

allVars == <<vars, wait, store, hist>>

Spec == Init /\ [][Next]_allVars

\* ==== one completion wait on its own ===========================================
\* waitForCopilotCompletion of the signal-based variant (part_000) and of the
\* heuristic variant (extension.ts), followed by the try/catch of startRalph that
\* records its result, under every configuration within the bounds below and with
\* stop(), the delegate and the workspace acting during the sleeps.
MaxPollMs == 2             \* copilotResponsePollMs ranges over 1..MaxPollMs
MaxMinWaitMs == 3          \* copilotMinWaitMs over 0..MaxMinWaitMs
MaxTimeoutMs == 4          \* copilotTimeoutMs over 1..MaxTimeoutMs
MaxIdleThresholdMs == 3    \* copilotIdleThresholdMs over 1..MaxIdleThresholdMs

WaitConfigs == [poll : 1..MaxPollMs, minWait : 0..MaxMinWaitMs,
                timeout : 1..MaxTimeoutMs, idleThreshold : 1..MaxIdleThresholdMs]

Strategies == {"signal", "heuristic"}

\* what a status file may hold while a wait polls it
StatusFileContents == {NoFile, "inprogress", "completed", "completed\n", "done"}

Min(a, b) == IF a < b THEN a ELSE b

\* the wait begins: startTime = Date.now(); the heuristic variant has just reset
\* the activity clock (sendToCopilot), the signal-based one has written the lease
InitWait ==
    /\ hist = NoHist
    /\ plan = [i \in Ids |-> Step("copilot_task", TRUE)]
    /\ progress = [i \in Ids |-> PendingRow]
    /\ InitRun
    /\ store = NoStore
    /\ \E s \in Strategies : \E c \in WaitConfigs :
          wait = [strategy |-> s, cfg |-> c, pc |-> "call", taskId |-> 1,
                  elapsed |-> 0, idle |-> 0,
                  lease |-> IF s = "signal" THEN "inprogress" ELSE NoFile,
                  cancelled |-> FALSE, outcome |-> "none",
                  status |-> "in-progress", notes |-> ""]

\* the wait of w has ended; startRalph records the step: done if the wait
\* returned, failed with the error text if it threw (the signal-based variant
\* also sets the lease to completed)
CompletionEnd(w, outcome, ok, errMsg) ==
    [w EXCEPT !.pc = IF ok THEN "returned" ELSE "thrown",
              !.outcome = outcome,
              !.status = IF ok THEN "done" ELSE "failed",
              !.notes = errMsg,
              !.lease = IF w.strategy = "signal" THEN "completed" ELSE @]

\* the code after the while loop, as a heuristic wait that throws like the signal one
LoopExhausted_AlwaysThrows(w) ==
    CompletionEnd(w, "timeout", FALSE, TimeoutError(w.taskId))

\* the code after the while loop
LoopExhausted(w) ==
    IF w.strategy = "signal"
    THEN CompletionEnd(w, "timeout", FALSE, TimeoutError(w.taskId))
    ELSE CompletionEnd(w, "timeout", TRUE, "")

\* a check that takes everything but inprogress for completion
CompletionDetected_NotInProgress(w) ==
    IF w.strategy = "signal"
    THEN getTaskStatus([i \in Ids |-> w.lease], w.taskId) # "inprogress"
    ELSE w.idle >= w.cfg.idleThreshold

\* the check made after the minimum wait
CompletionDetected(w) ==
    IF w.strategy = "signal"
    THEN getTaskStatus([i \in Ids |-> w.lease], w.taskId) = "completed"
    ELSE w.idle >= w.cfg.idleThreshold

\* the head of the while loop: the timeout, the cancellation check, then the sleep
CompletionLoop(w) ==
    IF ~(w.elapsed < w.cfg.timeout) THEN LoopExhausted(w)
    ELSE IF w.cancelled THEN CompletionEnd(w, "cancelled", FALSE, CancelError)
    ELSE [w EXCEPT !.pc = "sleeping"]

\* a wake-up that makes the check whatever time has elapsed
AfterSleep_NoMinimumWait(w) ==
    IF CompletionDetected(w) THEN CompletionEnd(w, "success", TRUE, "")
    ELSE CompletionLoop(w)

\* the statements after the sleep: the minimum wait, the check, the next turn
AfterSleep(w) ==
    IF w.elapsed < w.cfg.minWait THEN CompletionLoop(w)
    ELSE IF CompletionDetected(w) THEN CompletionEnd(w, "success", TRUE, "")
    ELSE CompletionLoop(w)

\* the wait as it wakes from sleep(poll): the clocks have advanced by poll
Woken(w) == [w EXCEPT !.elapsed = @ + w.cfg.poll,
                      !.idle = Min(@ + w.cfg.poll, MaxIdleThresholdMs)]

\* waitForCopilotCompletion is called
CompletionEnter ==
    /\ wait.pc = "call"
    /\ wait' = CompletionLoop(wait)
    /\ UNCHANGED <<vars, store, hist>>

\* one sleep of the wait is over
CompletionPoll ==
    /\ wait.pc = "sleeping"
    /\ wait' = AfterSleep(Woken(wait))
    /\ UNCHANGED <<vars, store, hist>>

\* stop() while the wait is pending
StopDuringWait ==
    /\ wait.pc \in {"call", "sleeping"}
    /\ ~wait.cancelled
    /\ wait' = [wait EXCEPT !.cancelled = TRUE]
    /\ UNCHANGED <<vars, store, hist>>

\* the delegate (or anybody) writes the status file of the task
StatusFileWritten(content) ==
    /\ wait.pc \in {"call", "sleeping"}
    /\ wait.strategy = "signal"
    /\ wait.lease # content
    /\ wait' = [wait EXCEPT !.lease = content]
    /\ UNCHANGED <<vars, store, hist>>

\* an event the ActivityTracker counts: lastActivityTime = Date.now()
WorkspaceActivity ==
    /\ wait.pc \in {"call", "sleeping"}
    /\ wait.strategy = "heuristic"
    /\ wait.idle # 0
    /\ wait' = [wait EXCEPT !.idle = 0]
    /\ UNCHANGED <<vars, store, hist>>

NextWait ==
    \/ CompletionEnter
    \/ CompletionPoll
    \/ StopDuringWait
    \/ \E content \in StatusFileContents : StatusFileWritten(content)
    \/ WorkspaceActivity

SpecWait == InitWait /\ [][NextWait]_allVars

WaitTypeOK ==
    /\ wait.strategy \in Strategies
    /\ wait.cfg \in WaitConfigs
    /\ wait.pc \in {"call", "sleeping", "returned", "thrown"}
    /\ wait.elapsed \in 0..(MaxTimeoutMs + MaxPollMs)
    /\ wait.idle \in 0..MaxIdleThresholdMs
    /\ wait.lease \in StatusFileContents
    /\ wait.outcome \in {"none", "success", "timeout", "cancelled"}
    /\ wait.status \in {"in-progress", "done", "failed"}

\* ==== the stores, the probe and the activity tracker on their own ===============
\* (SpecStore: one of them at a time, under the calls and the events it can get)
\* The operations on STATUS.md taken as text: a line is a sequence of tokens, the
\* token "|" is the column separator and every other token a piece of text that
\* holds no separator (the blanks around a cell are not kept: the regular
\* expressions allow them and parseState trims them).
Pipe == "|"

\* `status` as it stands in the status column (~ is written for the backquote)
Tick(status) == "~" \o status \o "~"

\* the row updateStepStatus and parseState match:
\* | <id> | <phase> | <action> | `<status>` | <timestamp> | <notes> |
PipesOf(line) == {k \in 1..Len(line) : line[k] = Pipe}

NthPipe(line, n) ==
    CHOOSE k \in PipesOf(line) : Cardinality({j \in PipesOf(line) : j < k}) = n - 1

Cell(line, n) == SubSeq(line, NthPipe(line, n) + 1, NthPipe(line, n + 1) - 1)

\* ^\|\s*(\d+)\s*\|[^|]*\|[^|]*\|\s*`(\w[\w-]*)`\s*\|([^|]*)\|([^|]*)\|$
RowMatches(line) ==
    /\ Len(line) >= 7
    /\ line[1] = Pipe /\ line[Len(line)] = Pipe
    /\ Cardinality(PipesOf(line)) = 7
    /\ \E i \in Ids : Cell(line, 1) = <<ToString(i)>>
    /\ \E st \in StepStatus : Cell(line, 4) = <<Tick(st)>>

\* parseState on the text: the rows that match, in the order of the document
RowOf(line) ==
    [id |-> CHOOSE i \in Ids : Cell(line, 1) = <<ToString(i)>>,
     status |-> CHOOSE st \in StepStatus : Cell(line, 4) = <<Tick(st)>>,
     timestamp |-> Cell(line, 5),
     notes |-> Cell(line, 6)]

RECURSIVE parseStateText(_)
parseStateText(doc) ==
    IF doc = <<>> THEN <<>>
    ELSE (IF RowMatches(Head(doc)) THEN <<RowOf(Head(doc))>> ELSE <<>>)
            \o parseStateText(Tail(doc))

\* String.prototype.replace expands $1 in the replacement text to the first group
RECURSIVE ExpandReplacement(_, _)
ExpandReplacement(text, group1) ==
    IF text = <<>> THEN <<>>
    ELSE (IF Head(text) = "$1" THEN group1 ELSE <<Head(text)>>)
            \o ExpandReplacement(Tail(text), group1)

\* updateStepStatus on the text: the first row of stepId is replaced by
\* $1 `status` | timestamp | notes |
updateStepStatusText(doc, stepId, status, notes) ==
    LET M == {k \in 1..Len(doc) :
                 RowMatches(doc[k]) /\ Cell(doc[k], 1) = <<ToString(stepId)>>}
    IN  IF M = {} THEN doc
        ELSE LET k == CHOOSE m \in M : \A n \in M : m <= n
                 group1 == SubSeq(doc[k], 1, NthPipe(doc[k], 4))
                 timestamp == IF status = "done" \/ status = "failed" THEN <<"ts">> ELSE <<>>
             IN  [doc EXCEPT ![k] =
                    group1 \o <<Tick(status), Pipe>> \o timestamp \o <<Pipe>>
                        \o ExpandReplacement(notes, group1) \o <<Pipe>>]

\* the action names of PLAN.md that executeStep does not know: any text of the
\* json block
UnknownActionTexts == {<<"deploy">>, <<"build", Pipe, "test">>, <<"$1">>}

\* the writes of the orchestrator: the status and the notes it passes
StatusWrites ==
    {<<"in-progress", <<>>>>, <<"done", <<>>>>, <<"pending", <<>>>>,
     <<"done", <<"Verified already complete">>>>,
     <<"skipped", <<"Step not found in PLAN.md">>>>,
     <<"failed", <<"Cancelled by user">>>>,
     <<"failed", <<"run_terminal step has no command">>>>,
     <<"failed", <<"create_file step has no path">>>>}
        \cup {<<"failed", <<TimeoutError(i)>>>> : i \in Ids}
        \cup {<<"failed", <<"Unknown action type: ">> \o a>> : a \in UnknownActionTexts}

\* STATUS.md as Quick Start generates it: the head of the table and a pending row
\* for every step
InitTable ==
    <<<<Pipe, "Step", Pipe, "Phase", Pipe, "Action", Pipe, "Status", Pipe,
        "Timestamp", Pipe, "Notes", Pipe>>>>
      \o [i \in Ids |-> <<Pipe, ToString(i), Pipe, "Phase", Pipe, "action", Pipe,
                          Tick("pending"), Pipe, Pipe, Pipe>>]

\* updateStepStatus(statePath, stepId, status, notes) is called
UpdateStepStatusCall(stepId, status, notes) ==
    /\ store.kind = "table"
    /\ store' = [store EXCEPT !.doc = updateStepStatusText(store.doc, stepId, status, notes)]
    /\ UNCHANGED <<vars, wait, hist>>

\* ---- verifyStepAlreadyDone on a workspace ----------------------------------------
\* what the workspace holds at the place the probe of a step looks at: the path of
\* a create_file step, the directory (or the files) a recognised command makes
TargetStates == {"absent", "empty", "nonempty"}

\* a probe of create_file that is content with the existence of the file
Found_ExistsOnly(step, target) == target # "absent"

\* fs.existsSync, and for create_file stat.size > 0
Found(step, target) ==
    IF step.action = "create_file" THEN target = "nonempty" ELSE target # "absent"

\* verifyStepAlreadyDone(step, workspaceRoot) is called
VerifyCall ==
    /\ store.kind = "probe"
    /\ store' = [store EXCEPT
                    !.result = verifyStepAlreadyDone(store.step, store.id,
                                  IF Found(store.step, store.target) THEN {store.id} ELSE {}),
                    !.calls = Min(@ + 1, 2)]
    /\ UNCHANGED <<vars, wait, hist>>

\* somebody creates, fills, empties or removes the target
TargetWritten(target) ==
    /\ store.kind = "probe"
    /\ store.target # target
    /\ store' = [store EXCEPT !.target = target, !.calls = 0]
    /\ UNCHANGED <<vars, wait, hist>>

\* ---- getTaskStatus on a status file ---------------------------------------------
\* a file that exists and cannot be read
Unreadable == "<unreadable>"

\* what .ralph/task-<id>-status may hold
StatusFileTexts ==
    {NoFile, Unreadable, "", "\n", "inprogress", "completed", "inprogress\n", "completed\n",
     " inprogress ", " completed", "in-progress", "done", "none", "COMPLETED",
     "completed inprogress"}

\* getTaskStatus(workspaceRoot, taskId) is called
GetTaskStatusCall ==
    /\ store.kind = "status file"
    /\ store' = [store EXCEPT
                    !.read = getTaskStatus([i \in Ids |-> store.content], store.id)]
    /\ UNCHANGED <<vars, wait, hist>>

\* somebody writes or removes the file
StatusFileSet(content) ==
    /\ store.kind = "status file"
    /\ store.content # content
    /\ store' = [store EXCEPT !.content = content, !.read = "unread"]
    /\ UNCHANGED <<vars, wait, hist>>

\* ---- ActivityTracker (the heuristic variant) --------------------------------------
MaxClock == 3              \* Date.now() ranges over 0..MaxClock

\* the events the tracker subscribes to
EventKinds ==
    {"onDidChangeTextDocument", "onDidCreateFiles", "onDidDeleteFiles", "onDidRenameFiles",
     "onDidSaveTextDocument", "onDidChangeActiveTextEditor", "onDidOpenTerminal",
     "onDidCloseTerminal"}

\* the document, file or editor an event is about: its uri, or nothing (no editor
\* is active, the event is about a terminal)
EventTargets == {"file:/ws/src/a.ts", "file:/ws/STATUS.md", "output:RALPH Runner", "<none>"}

\* uri.scheme === 'file'
IsFile(target) == target \in {"file:/ws/src/a.ts", "file:/ws/STATUS.md"}

\* uri.fsPath.endsWith('STATUS.md')
IsStatusMd(target) == target = "file:/ws/STATUS.md"

\* a tracker whose every handler leaves out the events about STATUS.md
Tracked_StatusMdExcludedEverywhere(kind, target) ==
    CASE kind \in {"onDidChangeTextDocument", "onDidSaveTextDocument",
                   "onDidChangeActiveTextEditor"} -> IsFile(target) /\ ~IsStatusMd(target)
      [] OTHER -> ~IsStatusMd(target)

\* the handler of the event sets lastActivityTime
Tracked(kind, target) ==
    CASE kind \in {"onDidChangeTextDocument", "onDidSaveTextDocument"} ->
           IsFile(target) /\ ~IsStatusMd(target)
      [] kind = "onDidChangeActiveTextEditor" -> target # "<none>" /\ IsFile(target)
      [] OTHER -> TRUE

\* VS Code delivers an event to the tracker
TrackerEvent(kind, target) ==
    /\ store.kind = "tracker"
    /\ store' = [store EXCEPT
                    !.lastActivityTime = IF Tracked(kind, target) THEN store.now ELSE @,
                    !.event = [kind |-> kind, target |-> target, at |-> store.now]]
    /\ UNCHANGED <<vars, wait, hist>>

\* time passes
ClockTick ==
    /\ store.kind = "tracker"
    /\ store.now < MaxClock
    /\ store' = [store EXCEPT !.now = @ + 1]
    /\ UNCHANGED <<vars, wait, hist>>

\* getIdleTimeMs
getIdleTimeMs(tracker) == tracker.now - tracker.lastActivityTime

\* ---- ensureNoActiveTask on a lease store -----------------------------------------
\* the call taken on its own, on whatever .ralph holds, with the delegate and
\* stop() acting during its sleeps; g is the call: the lease store, the position
\* (call, sleeping, returned, thrown), the time waited, the cancellation

\* the code after the while loop: the first inprogress file of the directory
\* listing (any of them) is removed
GuardTimedOut(g) ==
    {[g EXCEPT !.pc = "returned", !.lease = clearStalledTask(g.lease, timedOutId)] :
        timedOutId \in InProgressTaskIds(g.lease)}

\* the head of the while loop
GuardTurn(g) ==
    IF g.elapsed < COPILOT_TIMEOUT_MS
    THEN IF g.cancelled THEN {[g EXCEPT !.pc = "thrown"]}
         ELSE {[g EXCEPT !.pc = "sleeping"]}
    ELSE GuardTimedOut(g)

\* ensureNoActiveTask(workspaceRoot) is called
GuardCall ==
    /\ store.kind = "guard"
    /\ store.pc = "call"
    /\ store' \in IF ~isAnyInProgress(store.lease) THEN {[store EXCEPT !.pc = "returned"]}
                   ELSE GuardTurn(store)
    /\ UNCHANGED <<vars, wait, hist>>

\* a sleep of the call is over
GuardWake ==
    /\ store.kind = "guard"
    /\ store.pc = "sleeping"
    /\ LET g == [store EXCEPT !.elapsed = @ + COPILOT_RESPONSE_POLL_MS] IN
       store' \in IF ~isAnyInProgress(g.lease) THEN {[g EXCEPT !.pc = "returned"]}
                   ELSE GuardTurn(g)
    /\ UNCHANGED <<vars, wait, hist>>

\* the delegate ends the task of an inprogress lease during the call
GuardLeaseCompleted(taskId) ==
    /\ store.kind = "guard"
    /\ store.pc \in {"call", "sleeping"}
    /\ getTaskStatus(store.lease, taskId) = "inprogress"
    /\ store' = [store EXCEPT !.lease = setCompleted(@, taskId)]
    /\ UNCHANGED <<vars, wait, hist>>

\* stop() during the call
GuardStop ==
    /\ store.kind = "guard"
    /\ store.pc \in {"call", "sleeping"}
    /\ ~store.cancelled
    /\ store' = [store EXCEPT !.cancelled = TRUE]
    /\ UNCHANGED <<vars, wait, hist>>

\* ---- executeTerminal on its own ----------------------------------------------------
\* One run_terminal step from the call of executeTerminal to the recording by the
\* try/catch of startRalph, in ticks: t is the call: the position (call, pending,
\* resolved, thrown), whether the step has a command, what became of the command
\* sent to the terminal, whether the terminal is open, the time since the timers
\* were armed, which timers are armed, the lease and the row of the step.
TERMINAL_AUTO_CLOSE_MS == 2     \* the 15 s auto-close timer
TERMINAL_TIMEOUT_MS == 4        \* the 60 s timeout

CommandResults == {"exit 0", "exit 1"}

\* a promise that settles by the result of the command: it rejects unless the
\* command has ended with exit code 0
TerminalResolve_ByExitCode(t) ==
    IF t.command = "exit 0"
    THEN [t EXCEPT !.pc = "resolved", !.status = "done", !.notes = "",
                   !.lease = IF t.strategy = "signal" THEN "completed" ELSE @]
    ELSE [t EXCEPT !.pc = "thrown", !.status = "failed", !.notes = "command failed",
                   !.lease = IF t.strategy = "signal" THEN "completed" ELSE @]

\* resolve(): executeStep returns and startRalph records the step done (the
\* signal-based variant sets the lease to completed); resolve() on a promise that
\* is settled does nothing
TerminalResolve(t) ==
    IF t.pc # "pending" THEN t
    ELSE [t EXCEPT !.pc = "resolved", !.status = "done", !.notes = "",
                   !.lease = IF t.strategy = "signal" THEN "completed" ELSE @]

\* executeTerminal(step, workspaceRoot) is called for the dispatched step
ExecuteTerminalCall ==
    /\ store.kind = "terminal"
    /\ store.pc = "call"
    /\ store' = IF ~store.hasCommand
                THEN [store EXCEPT !.pc = "thrown", !.status = "failed",
                                   !.notes = "run_terminal step has no command",
                                   !.lease = IF store.strategy = "signal" THEN "completed" ELSE @]
                ELSE [store EXCEPT !.pc = "pending", !.command = "running", !.open = TRUE,
                                   !.timeoutArmed = TRUE, !.autoCloseArmed = TRUE,
                                   !.listening = TRUE]
    /\ UNCHANGED <<vars, wait, hist>>

\* the command sent to the terminal ends
CommandEnds(result) ==
    /\ store.kind = "terminal"
    /\ store.command = "running"
    /\ store.open
    /\ store' = [store EXCEPT !.command = result]
    /\ UNCHANGED <<vars, wait, hist>>

\* the callbacks of the timers that are due at `clock`
TimersDue(t) ==
    LET a == IF t.autoCloseArmed /\ t.clock = TERMINAL_AUTO_CLOSE_MS
             THEN TerminalResolve([t EXCEPT !.autoCloseArmed = FALSE, !.timeoutArmed = FALSE,
                                            !.listening = FALSE, !.open = FALSE])
             ELSE t
    IN  IF a.timeoutArmed /\ a.clock = TERMINAL_TIMEOUT_MS
        THEN TerminalResolve([a EXCEPT !.timeoutArmed = FALSE, !.open = FALSE])
        ELSE a

\* a tick of time while a timer is armed
TerminalTick ==
    /\ store.kind = "terminal"
    /\ store.autoCloseArmed \/ store.timeoutArmed
    /\ store' = TimersDue([store EXCEPT !.clock = @ + 1])
    /\ UNCHANGED <<vars, wait, hist>>

\* the terminal is closed (by the operator, or the shell exits): onDidCloseTerminal
TerminalClosed ==
    /\ store.kind = "terminal"
    /\ store.open
    /\ store' = IF store.listening
                THEN TerminalResolve([store EXCEPT !.open = FALSE, !.timeoutArmed = FALSE,
                                                   !.listening = FALSE])
                ELSE [store EXCEPT !.open = FALSE]
    /\ UNCHANGED <<vars, wait, hist>>

\* stop() while the step is pending
TerminalStop ==
    /\ store.kind = "terminal"
    /\ store.pc \in {"call", "pending"}
    /\ ~store.cancelled
    /\ store' = [store EXCEPT !.cancelled = TRUE]
    /\ UNCHANGED <<vars, wait, hist>>

\* ---- the dispatch of the heuristic variant on its own (extension.ts) ----------------
\* The loop of startRalph on a plan of copilot_task steps: ensureCopilotIdle, the
\* dispatch, sendToCopilot (ensureCopilotIdle again, the activity clock reset, the
\* chat command and its fallbacks), the completion wait and the recording.  h is
\* the run: the position, copilotRequestActive, the idle time of the tracker
\* (counted up to the threshold), the time waited in the current wait, the call
\* site of the guard that sleeps, the cancellation, the iterations counted, the
\* row of the step and how the invocation ended.
COPILOT_IDLE_THRESHOLD_MS == 2

\* the try/catch of startRalph, loopsExecuted++ and the settle delay
SendRecorded(h, ok, errMsg) ==
    [h EXCEPT !.pc = "loop", !.status = IF ok THEN "done" ELSE "failed", !.notes = errMsg,
              !.loops = @ + 1, !.elapsed = 0]

\* an error thrown inside the try block of startRalph
SendCaught(h) == SendRecorded(h, FALSE, CancelError)

\* an error thrown outside it: the invocation of startRalph rejects
RunThrown(h) == [h EXCEPT !.pc = "ended", !.outcome = "thrown"]

\* waitForCopilotCompletion: the head of its while loop, and `copilotRequestActive
\* = false` after it
SendWaitHead(h) ==
    IF ~(h.elapsed < COPILOT_TIMEOUT_MS) THEN SendRecorded([h EXCEPT !.active = FALSE], TRUE, "")
    ELSE IF h.cancelled THEN SendRecorded([h EXCEPT !.active = FALSE], FALSE, CancelError)
    ELSE [h EXCEPT !.pc = "waiting"]

\* sendToCopilot after its guard: resetActivity(), copilotRequestActive = true, and
\* the chat command is sent with the prompt
SendHandOver(h) == [h EXCEPT !.idle = 0, !.active = TRUE, !.pc = "command", !.elapsed = 0]

\* ensureCopilotIdle: the head of its while loop; the positions "<returned>" and
\* "<thrown>" are how the call ends, for its caller to go on from
EnsureIdleHead(h) ==
    IF h.elapsed < COPILOT_TIMEOUT_MS
    THEN IF h.cancelled THEN [h EXCEPT !.pc = "<thrown>"] ELSE [h EXCEPT !.pc = "idle wait"]
    ELSE [h EXCEPT !.pc = "<returned>", !.active = FALSE]

ensureCopilotIdle(h) ==
    IF ~h.active /\ h.idle >= COPILOT_IDLE_THRESHOLD_MS THEN [h EXCEPT !.pc = "<returned>"]
    ELSE EnsureIdleHead([h EXCEPT !.elapsed = 0])

\* the statements after the sleep of the guard
EnsureIdleWake(h) ==
    LET w == [h EXCEPT !.elapsed = @ + COPILOT_RESPONSE_POLL_MS,
                       !.idle = Min(@ + COPILOT_RESPONSE_POLL_MS, COPILOT_IDLE_THRESHOLD_MS)]
    IN  IF ~w.active /\ w.idle >= COPILOT_IDLE_THRESHOLD_MS THEN [w EXCEPT !.pc = "<returned>"]
        ELSE EnsureIdleHead(w)

\* sendToCopilot goes on after its guard g; its error is caught by startRalph
AfterSendGuard(g) ==
    CASE g.pc = "<returned>" -> SendHandOver(g)
      [] g.pc = "<thrown>" -> SendCaught(g)
      [] OTHER -> g

sendToCopilot(h) == AfterSendGuard(ensureCopilotIdle([h EXCEPT !.site = "sendToCopilot"]))

\* startRalph goes on after its guard g: the row is set in-progress and executeStep
\* is called; the error of this guard is not caught
AfterLoopGuard(g) ==
    CASE g.pc = "<returned>" -> sendToCopilot([g EXCEPT !.status = "in-progress", !.notes = ""])
      [] g.pc = "<thrown>" -> RunThrown(g)
      [] OTHER -> g

\* one iteration of the loop up to its first suspension (the settle delay is over)
SendIterate ==
    /\ store.kind = "send"
    /\ store.pc = "loop"
    /\ store' = IF ~(store.loops < MAX_AUTONOMOUS_LOOPS /\ ~store.cancelled)
                THEN [store EXCEPT !.pc = "ended", !.outcome = "returned", !.active = FALSE]
                ELSE AfterLoopGuard(ensureCopilotIdle([store EXCEPT !.site = "startRalph"]))
    /\ UNCHANGED <<vars, wait, hist>>

\* the sleep of one poll of ensureCopilotIdle is over
EnsureIdlePoll ==
    /\ store.kind = "send"
    /\ store.pc = "idle wait"
    /\ store' = IF store.site = "startRalph" THEN AfterLoopGuard(EnsureIdleWake(store))
                ELSE AfterSendGuard(EnsureIdleWake(store))
    /\ UNCHANGED <<vars, wait, hist>>

\* an awaited command of sendToCopilot settles: the chat command with the query,
\* then the fallback (focus, sleep, the chat command with the prompt), then the
\* clipboard and the chat command without a prompt; an error of the last one
\* leaves sendToCopilot
CommandSettles(ok) ==
    /\ store.kind = "send"
    /\ store.pc \in {"command", "fallback", "clipboard"}
    /\ store' = IF ok THEN SendWaitHead([store EXCEPT !.elapsed = 0])
                ELSE CASE store.pc = "command" -> [store EXCEPT !.pc = "fallback"]
                       [] store.pc = "fallback" -> [store EXCEPT !.pc = "clipboard"]
                       [] store.pc = "clipboard" -> SendRecorded(store, FALSE, "<command error>")
    /\ UNCHANGED <<vars, wait, hist>>

\* the sleep of one poll of the completion wait is over
SendWaitPoll ==
    /\ store.kind = "send"
    /\ store.pc = "waiting"
    /\ LET w == [store EXCEPT !.elapsed = @ + COPILOT_RESPONSE_POLL_MS,
                              !.idle = Min(@ + COPILOT_RESPONSE_POLL_MS,
                                           COPILOT_IDLE_THRESHOLD_MS)]
       IN  store' = IF w.elapsed < COPILOT_MIN_WAIT_MS THEN SendWaitHead(w)
                    ELSE IF w.idle >= COPILOT_IDLE_THRESHOLD_MS
                    THEN SendRecorded([w EXCEPT !.active = FALSE], TRUE, "")
                    ELSE SendWaitHead(w)
    /\ UNCHANGED <<vars, wait, hist>>

\* an event the ActivityTracker counts
SendActivity ==
    /\ store.kind = "send"
    /\ store.pc # "ended"
    /\ store.idle # 0
    /\ store' = [store EXCEPT !.idle = 0]
    /\ UNCHANGED <<vars, wait, hist>>

\* stop() during the run
SendStop ==
    /\ store.kind = "send"
    /\ store.pc # "ended"
    /\ ~store.cancelled
    /\ store' = [store EXCEPT !.cancelled = TRUE]
    /\ UNCHANGED <<vars, wait, hist>>

InitStore ==
    /\ hist = NoHist
    /\ plan = [i \in Ids |-> Step("copilot_task", TRUE)]
    /\ progress = [i \in Ids |-> PendingRow]
    /\ InitRun
    /\ wait = NoWait
    /\ \/ store = [kind |-> "table", doc |-> InitTable]
       \/ \E step \in PlanStep : \E id \in Ids :
             store = [kind |-> "probe", step |-> step, id |-> id, target |-> "absent",
                      result |-> FALSE, calls |-> 0]
       \/ \E id \in Ids :
             store = [kind |-> "status file", id |-> id, content |-> NoFile, read |-> "unread"]
       \/ \E L \in [Ids -> LeaseContents] :
             store = [kind |-> "guard", lease |-> L, pc |-> "call", elapsed |-> 0,
                      cancelled |-> FALSE]
       \/ store = [kind |-> "tracker", now |-> 0, lastActivityTime |-> 0,
                   event |-> [kind |-> "constructor", target |-> "<none>", at |-> 0]]
       \/ \E s \in Strategies : \E c \in BOOLEAN :
             store = [kind |-> "terminal", strategy |-> s, hasCommand |-> c, pc |-> "call",
                      command |-> "not sent", open |-> FALSE, clock |-> 0,
                      timeoutArmed |-> FALSE, autoCloseArmed |-> FALSE, listening |-> FALSE,
                      cancelled |-> FALSE,
                      lease |-> IF s = "signal" THEN "inprogress" ELSE NoFile,
                      status |-> "in-progress", notes |-> ""]
       \/ \E idle \in 0..COPILOT_IDLE_THRESHOLD_MS :
             store = [kind |-> "send", pc |-> "loop", active |-> FALSE, idle |-> idle,
                      elapsed |-> 0, site |-> "startRalph", cancelled |-> FALSE, loops |-> 0,
                      status |-> "pending", notes |-> "", outcome |-> "none"]

NextStore ==
    \/ \E stepId \in Ids : \E w \in StatusWrites : UpdateStepStatusCall(stepId, w[1], w[2])
    \/ VerifyCall
    \/ \E target \in TargetStates : TargetWritten(target)
    \/ GetTaskStatusCall
    \/ \E content \in StatusFileTexts : StatusFileSet(content)
    \/ \E kind \in EventKinds : \E target \in EventTargets : TrackerEvent(kind, target)
    \/ ClockTick
    \/ GuardCall
    \/ GuardWake
    \/ \E taskId \in Ids : GuardLeaseCompleted(taskId)
    \/ GuardStop
    \/ ExecuteTerminalCall
    \/ \E result \in CommandResults : CommandEnds(result)
    \/ TerminalTick
    \/ TerminalClosed
    \/ TerminalStop
    \/ SendIterate
    \/ EnsureIdlePoll
    \/ \E ok \in BOOLEAN : CommandSettles(ok)
    \/ SendWaitPoll
    \/ SendActivity
    \/ SendStop

SpecStore == InitStore /\ [][NextStore]_allVars

\* ==== properties ==========================================================================
NotDoneNotSkipped ==
    {i \in Ids : /\ progress # AbsentDoc
                 /\ progress[i] # NoRow
                 /\ progress[i].status \notin {"done", "skipped"}}

Lowest(S, i) == i \in S /\ \A j \in S : i <= j

C2_AtMostOneLeaseInProgress == Cardinality(InProgressTaskIds(lease)) <= 1

\* one run holds the lease of a step while another run waits in the guard to
\* dispatch a different step
C2_Witness ==
    \E r, q \in Runs : /\ pc[r] = "guard"
                       /\ pc[q] \in {"sending", "waiting", "terminal"}
                       /\ cur[q] # cur[r]
                       /\ getTaskStatus(lease, cur[q]) = "inprogress"

\* a step of the loop of run r
LoopStep(r) == Iterate(r) \/ GuardPoll(r) \/ SendDone(r) \/ Poll(r) \/ TerminalDone(r)

\* C3: a lease that reads inprogress when start() is invoked is never cleared or
\* overwritten silently by that invocation: it only opens the prompt (no lease, no
\* progress entry and no run state changes, nothing is dispatched), and the
\* answer to the prompt clears the lease, or starts the run, only if it is
\* 'Clear & Retry', in which case exactly the stalled lease is deleted.
C3_StalledLeaseClearedOnlyOnConfirmation ==
    [][\A r \in Runs :
        /\ (startRalph(r) /\ ~isRunning /\ isAnyInProgress(lease)) =>
              /\ pc'[r] = "prompt"
              /\ getTaskStatus(lease, cur'[r]) = "inprogress"
              /\ UNCHANGED <<plan, progress, lease, evidence, delegated, isRunning,
                             cancelToken, quickStatus>>
        /\ \A a \in PromptAnswers :
              (PromptAnswer(r, a) /\ (lease' # lease \/ progress' # progress
                                      \/ isRunning' # isRunning \/ pc'[r] # "idle")) =>
                  /\ a = "Clear & Retry"
                  /\ lease' = [lease EXCEPT ![cur[r]] = NoFile]
        /\ pc[r] \in {"idle", "prompt"} => pc'[r] \in {"idle", "prompt", "loop"}
      ]_vars

\* after a crash in the middle of a step the next start() shows the prompt
C3_Witness ==
    \E r \in Runs : /\ pc[r] = "prompt"
                    /\ \A q \in Runs \ {r} : pc[q] = "idle"
                    /\ getTaskStatus(lease, cur[r]) = "inprogress"
                    /\ progress[cur[r]].status = "in-progress"
                    /\ ~isRunning

C5_TimeoutRecordsFailedAndReleasesLease ==
    [][\A r \in Runs :
        (Poll(r) /\ elapsed[r] + COPILOT_RESPONSE_POLL_MS >= COPILOT_TIMEOUT_MS
                 /\ getTaskStatus(lease, cur[r]) # "completed") =>
            /\ progress'[cur[r]] = [status |-> "failed", timestamp |-> "ts",
                                    notes |-> TimeoutError(cur[r])]
            /\ getTaskStatus(lease', cur[r]) = "completed"
            /\ pc'[r] = "settle"
      ]_vars

C5_Witness ==
    \E i \in Ids : /\ progress[i].status = "failed"
                   /\ progress[i].notes = TimeoutError(i)
                   /\ getTaskStatus(lease, i) = "completed"

\* C6: whenever executeStep returns or throws for a dispatched step, the lease of
\* the step is set to completed, the step is recorded done (return) or failed with
\* the error text (throw), the iteration is counted and the loop goes on to the
\* settle delay and the next iteration: the error does not leave startRalph.
C6_EveryExecutedStepIsRecorded ==
    [][\A r \in Runs :
        /\ ((SendDone(r) \/ Poll(r) \/ TerminalDone(r)) /\ pc'[r] # "waiting") =>
              LET e == IF pc[r] = "waiting" THEN elapsed[r] + COPILOT_RESPONSE_POLL_MS ELSE 0
                  returned == \/ pc[r] = "terminal"
                              \/ /\ pc[r] = "waiting"
                                 /\ e >= COPILOT_MIN_WAIT_MS
                                 /\ getTaskStatus(lease, cur[r]) = "completed"
              IN  /\ getTaskStatus(lease', cur[r]) = "completed"
                  /\ progress'[cur[r]] =
                        IF returned THEN [status |-> "done", timestamp |-> "ts", notes |-> ""]
                        ELSE [status |-> "failed", timestamp |-> "ts",
                              notes |-> IF e >= COPILOT_TIMEOUT_MS THEN TimeoutError(cur[r])
                                        ELSE CancelError]
                  /\ \A j \in Ids \ {cur[r]} : progress'[j] = progress[j] /\ lease'[j] = lease[j]
                  /\ loopsExecuted'[r] = loopsExecuted[r] + 1
                  /\ pc'[r] = "settle"
        /\ \A i \in Ids :
              (/\ Iterate(r) /\ LoopCondition(r) /\ ~IsCancellationRequested
               /\ Lowest(NotDoneNotSkipped, i)
               /\ plan[i] # NoStep
               /\ ExecKind(plan[i]) = "throw"
               /\ ~isAnyInProgress(lease)) =>
                  /\ getTaskStatus(lease', i) = "completed"
                  /\ progress'[i] = [status |-> "failed", timestamp |-> "ts",
                                     notes |-> ExecError(plan[i])]
                  /\ loopsExecuted'[r] = loopsExecuted[r] + 1
                  /\ pc'[r] = "settle"
      ]_vars

\* a step has thrown, is recorded failed with the error text and released, and
\* its run is in the settle delay before the next iteration
C6_Witness ==
    \E r \in Runs : \E i \in Ids :
        /\ pc[r] = "settle" /\ loopsExecuted[r] = 1 /\ isRunning
        /\ plan[i] # NoStep /\ ExecKind(plan[i]) = "throw"
        /\ progress[i] = [status |-> "failed", timestamp |-> "ts", notes |-> ExecError(plan[i])]
        /\ getTaskStatus(lease, i) = "completed"

\* C7 (as claimed): the scheduler selects only in-progress or pending steps; a step
\* whose status is failed is not selected again.
C7_FailedStepNotSelectedAgain ==
    [][\A r \in Runs : \A i \in Ids :
        ((Iterate(r) \/ GuardPoll(r)) /\ progress[i].status = "failed") =>
            /\ progress'[i] = progress[i]
            /\ ~(pc'[r] \in {"guard", "sending", "terminal"} /\ cur'[r] = i)
      ]_vars

\* C8: in one run the counter never exceeds maxAutonomousLoops and grows by one at
\* a time; a step of the run touches a progress entry or a lease, or begins a
\* dispatch, only while the counter is below the maximum; the counter grows exactly
\* in the steps that record a terminal status (done, failed, skipped) for one task;
\* a step of the run changes at most one progress entry; and at the maximum the
\* loop stops without changing any progress entry or lease.
C8_LoopBound ==
    [][\A r \in Runs :
        /\ loopsExecuted'[r] <= MAX_AUTONOMOUS_LOOPS
        /\ loopsExecuted'[r] # loopsExecuted[r] =>
              \/ loopsExecuted'[r] = loopsExecuted[r] + 1
              \/ loopsExecuted'[r] = 0 /\ pc'[r] = "idle"
        /\ LoopStep(r) =>
              /\ (progress' # progress \/ lease' # lease
                  \/ pc'[r] \in {"guard", "sending", "waiting", "terminal"})
                     => loopsExecuted[r] < MAX_AUTONOMOUS_LOOPS
              /\ \A i \in Ids :
                    (progress'[i] # progress[i]
                     /\ progress'[i].status \in {"done", "failed", "skipped"})
                        => loopsExecuted'[r] = loopsExecuted[r] + 1
              /\ loopsExecuted'[r] = loopsExecuted[r] + 1 =>
                    \E i \in Ids : /\ progress'[i].status \in {"done", "failed", "skipped"}
                                   /\ \A j \in Ids \ {i} : progress'[j] = progress[j]
              /\ \A i, j \in Ids :
                    (progress'[i] # progress[i] /\ progress'[j] # progress[j]) => i = j
              /\ loopsExecuted[r] >= MAX_AUTONOMOUS_LOOPS =>
                    pc'[r] = "idle" /\ progress' = progress /\ lease' = lease
      ]_vars

\* a run has used up its iterations and a task is still pending
C8_Witness ==
    \E r \in Runs : /\ pc[r] = "settle"
                    /\ loopsExecuted[r] = MAX_AUTONOMOUS_LOOPS
                    /\ isRunning
                    /\ \E i \in Ids : progress[i].status = "pending"

\* C9: an iteration that finds, at the top of the loop, that the run was stopped
\* (isRunning false or the cancellation token cancelled) ends the loop at once: it
\* selects and dispatches nothing and changes no progress entry and no lease.
C9_StopObservedAtLoopTopExits ==
    [][\A r \in Runs :
        (Iterate(r) /\ (~isRunning \/ IsCancellationRequested)) =>
            /\ pc'[r] = "idle"
            /\ \A q \in Runs \ {r} : pc'[q] = pc[q]
            /\ UNCHANGED <<plan, progress, lease, evidence, delegated, quickStatus>>
      ]_vars

\* a stopped run is about to wake from the settle delay and there is work left
C9_Witness ==
    \E r \in Runs : /\ pc[r] = "settle"
                    /\ ~isRunning
                    /\ cancelToken = "cancelled"
                    /\ loopsExecuted[r] < MAX_AUTONOMOUS_LOOPS
                    /\ NotDoneNotSkipped # {}

C11_StoppedStepRecordedFailed ==
    [][\A r \in Runs :
        ((TerminalDone(r) \/ SendDone(r) \/ Poll(r)) /\ IsCancellationRequested
            /\ pc'[r] = "settle") =>
                progress'[cur[r]].status = "failed"
      ]_vars

\* C12 (as claimed): once cancellation has been requested during a completion
\* wait, the wait ends at its next poll by raising the cancellation error; it
\* neither returns success nor reports a timeout.
C12_CancelledWaitRaisesCancellation ==
    [][(CompletionPoll /\ wait.cancelled) => wait'.outcome = "cancelled"]_allVars

\* C13 (as claimed): neither strategy reports an outcome (success or timeout)
\* before copilotMinWaitMs has elapsed since the wait began, whatever the
\* configuration.
C13_NoOutcomeBeforeMinimumWait ==
    wait.outcome \in {"success", "timeout"} => wait.elapsed >= wait.cfg.minWait

\* C13 (amended): neither strategy returns success from its completion check before
\* copilotMinWaitMs has elapsed, and neither reports a timeout before
\* copilotTimeoutMs has elapsed; an outcome reported before the minimum wait is a
\* timeout under a timeout smaller than the minimum wait (recorded failed by the
\* signal-based strategy, done by the heuristic one) or a cancellation.
C13_MinimumWaitBoundsTheCheckOnly ==
    /\ wait.outcome = "success" => wait.elapsed >= wait.cfg.minWait
    /\ wait.outcome = "timeout" => wait.elapsed >= wait.cfg.timeout
    /\ (wait.outcome \in {"success", "timeout"} /\ wait.elapsed < wait.cfg.minWait) =>
          /\ wait.outcome = "timeout"
          /\ wait.cfg.timeout < wait.cfg.minWait
          /\ wait.status = IF wait.strategy = "signal" THEN "failed" ELSE "done"

\* a wait passed polls inside the minimum wait and then returned success
C13_Witness ==
    /\ wait.pc = "returned"
    /\ wait.outcome = "success"
    /\ wait.cfg.poll < wait.cfg.minWait
    /\ wait.elapsed >= wait.cfg.minWait
    /\ wait.elapsed < wait.cfg.minWait + wait.cfg.poll

\* C14: a poll of the heuristic wait returns success exactly when the elapsed time
\* is at least copilotMinWaitMs and the idle time at least copilotIdleThresholdMs;
\* when copilotTimeoutMs has elapsed without that, the wait returns as well; the
\* wait throws only the cancellation error, after stop(); so the step is recorded
\* done, or failed with 'Cancelled by user', never failed for a timeout.
C14_HeuristicWaitEndsInSuccessOrCancellation ==
    [][(CompletionPoll /\ wait.strategy = "heuristic") =>
          LET w == Woken(wait) IN
          /\ wait'.outcome = "success" <=>
                (w.elapsed >= w.cfg.minWait /\ w.idle >= w.cfg.idleThreshold)
          /\ (wait'.outcome # "success" /\ w.elapsed >= w.cfg.timeout) =>
                wait'.outcome = "timeout" /\ wait'.pc = "returned"
          /\ wait'.pc = "returned" => wait'.status = "done"
          /\ wait'.pc = "thrown" =>
                /\ wait.cancelled
                /\ wait'.outcome = "cancelled"
                /\ wait'.status = "failed" /\ wait'.notes = CancelError
          /\ wait'.pc = "sleeping" => wait'.status = "in-progress"
      ]_allVars

\* the timeout elapsed while the workspace was active: the step is recorded done
C14_Witness ==
    /\ wait.strategy = "heuristic"
    /\ wait.outcome = "timeout"
    /\ wait.idle < wait.cfg.idleThreshold
    /\ wait.elapsed >= wait.cfg.minWait
    /\ wait.status = "done"

\* C15: a poll of the signal-based wait returns success only if the status file of
\* the task reads completed at that poll (and the minimum wait has elapsed); with
\* any other content (inprogress, no file, other text) the wait does not succeed:
\* it sleeps again, leaving the file alone, until copilotTimeoutMs has elapsed, and
\* then reports the timeout (unless stop() was requested).
C15_SignalWaitSucceedsOnlyOnCompleted ==
    [][(CompletionPoll /\ wait.strategy = "signal") =>
          LET w == Woken(wait)
              reads == getTaskStatus([i \in Ids |-> wait.lease], wait.taskId)
          IN  /\ wait'.outcome = "success" =>
                    reads = "completed" /\ w.elapsed >= w.cfg.minWait
              /\ reads # "completed" =>
                    /\ wait'.outcome # "success"
                    /\ (w.elapsed < w.cfg.timeout /\ ~wait.cancelled) =>
                          /\ wait'.pc = "sleeping"
                          /\ wait'.lease = wait.lease
                          /\ wait'.status = "in-progress"
                    /\ w.elapsed >= w.cfg.timeout =>
                          /\ wait'.outcome = "timeout"
                          /\ wait'.status = "failed"
                          /\ wait'.notes = TimeoutError(wait.taskId)
      ]_allVars

\* after the minimum wait a poll found other text in the status file and the wait
\* went on
C15_Witness ==
    /\ wait.strategy = "signal"
    /\ wait.pc = "sleeping"
    /\ wait.lease = "done"
    /\ wait.elapsed >= wait.cfg.minWait + wait.cfg.poll
    /\ wait.status = "in-progress"

\* C16: start() invoked while isRunning is true changes nothing: no run state, no
\* progress entry, no lease, and the invocation does not enter the loop.
C16_StartWhileRunningChangesNothing ==
    [][\A r \in Runs : (startRalph(r) /\ isRunning) => UNCHANGED vars]_vars

\* a run is waiting for the delegate and start() can be invoked again
C16_Witness ==
    /\ isRunning
    /\ ~Busy
    /\ \E q \in Runs : pc[q] = "waiting" /\ getTaskStatus(lease, cur[q]) = "inprogress"
    /\ \E r \in Runs : pc[r] = "idle"

\* C17: when parsePlan gets no step from PLAN.md (no json block, invalid JSON, no
\* steps) a start() that reaches parsePlan returns before the loop: the invocation
\* is idle again, isRunning is false, no progress entry has changed and nothing
\* has been dispatched; with such a plan no invocation is ever in the loop.
C17_UnparsablePlanAbortsBeforeLoop ==
    [][parsePlan(plan) = EmptyPlan =>
          /\ \A r \in Runs : pc'[r] \in {"idle", "prompt"}
          /\ \A r \in Runs :
                (startRalph(r) \/ \E a \in PromptAnswers : PromptAnswer(r, a)) =>
                    /\ pc'[r] = "idle"
                    /\ ~isRunning'
                    /\ UNCHANGED <<plan, progress, evidence, delegated, quickStatus>>
                    /\ \A i \in Ids : getTaskStatus(lease', i) # "inprogress"
      ]_vars

\* start() was invoked on a PLAN.md whose json block does not parse, and has returned
C17_Witness ==
    /\ plan = InvalidJson
    /\ cancelToken = "live"
    /\ ~isRunning
    /\ \A r \in Runs : pc[r] = "idle"
    /\ progress = [i \in Ids |-> PendingRow]

\* a step of the plan with an unknown action, or without the field its action needs
Malformed(step) ==
    /\ step # NoStep
    /\ step.action \notin {"run_terminal", "create_file", "copilot_task"} \/ ~step.payload

\* C18 (as claimed): a plan in which some task has an unknown action kind or lacks
\* the field its action requires is not loaded: no run enters the loop and no
\* progress entry changes.
C18_MalformedTaskFailsTheLoad ==
    [][(\E i \in Ids : Malformed(parsePlan(plan)[i])) =>
          /\ progress' = progress
          /\ \A r \in Runs : pc'[r] \in {"idle", "prompt"}
      ]_vars

\* C18 (amended): such a plan is loaded like any other (the run starts); the
\* malformed task fails when it is dispatched: it is recorded failed with the note
\* 'run_terminal step has no command', 'create_file step has no path' or 'Unknown
\* action type: <action>', its lease is set to completed and the run goes on; a
\* copilot_task without instruction is handed to the delegate like any other.
C18_MalformedTaskFailsWhenDispatched ==
    [][\A r \in Runs :
        /\ (startRalph(r) /\ ~isRunning /\ FilesExist /\ ~isAnyInProgress(lease)
               /\ \E i \in Ids : Malformed(parsePlan(plan)[i])) =>
              pc'[r] = "loop" /\ isRunning'
        /\ \A i \in Ids :
              (/\ Iterate(r) /\ LoopCondition(r) /\ ~IsCancellationRequested
               /\ Lowest(NotDoneNotSkipped, i)
               /\ Malformed(parsePlan(plan)[i])
               /\ ~isAnyInProgress(lease)) =>
                  IF plan[i].action = "copilot_task"
                  THEN /\ pc'[r] = "sending" /\ cur'[r] = i
                       /\ getTaskStatus(lease', i) = "inprogress"
                       /\ progress'[i].status = "in-progress"
                       /\ i \in delegated'
                  ELSE /\ progress'[i].status = "failed"
                       /\ progress'[i].notes =
                             CASE plan[i].action = "run_terminal" ->
                                    "run_terminal step has no command"
                               [] plan[i].action = "create_file" ->
                                    "create_file step has no path"
                               [] OTHER -> "Unknown action type: " \o plan[i].action
                       /\ getTaskStatus(lease', i) = "completed"
                       /\ pc'[r] = "settle"
                       /\ isRunning' = isRunning
      ]_vars

\* the task before the malformed one was executed, the malformed one failed
C18_Witness ==
    \E i, j \in Ids :
        /\ i # j
        /\ progress[i].status = "done" /\ progress[i].notes = ""
        /\ Malformed(parsePlan(plan)[j])
        /\ progress[j].status = "failed"
        /\ progress[j].notes = "run_terminal step has no command"
        /\ getTaskStatus(lease, j) = "completed"

\* C19 (as claimed): when STATUS.md is absent at start(), it is taken for an empty
\* progress record and the run proceeds: start() can enter the loop.
C19_MissingProgressDocumentIsBootstrapped ==
    (/\ progress = AbsentDoc
     /\ parsePlan(plan) # EmptyPlan
     /\ ~isRunning
     /\ \A r \in Runs : pc[r] = "idle") =>
        ENABLED (\E r \in Runs : startRalph(r) /\ pc'[r] = "loop" /\ isRunning')

\* C19 (amended): when STATUS.md is absent, start() reports an error and returns
\* at once: no run state, no lease and no document changes; no run ever begins
\* and no task is scheduled while the document is absent, and the orchestrator
\* does not create it.
C19_MissingProgressDocumentAbortsStart ==
    [][progress = AbsentDoc =>
          /\ \A r \in Runs : startRalph(r) => UNCHANGED vars
          /\ \A r \in Runs : pc'[r] = "idle"
          /\ ~isRunning'
          /\ cancelToken' = "null"
          /\ progress' = AbsentDoc
          /\ lease' = lease
      ]_vars

\* PLAN.md holds steps, STATUS.md is absent: start() has nothing it can do
C19_Witness ==
    /\ progress = AbsentDoc
    /\ parsePlan(plan) # EmptyPlan
    /\ \E i \in Ids : plan[i] = Step("copilot_task", TRUE)
    /\ \A r \in Runs : pc[r] = "idle"
    /\ ~isRunning
    /\ evidence # {}

Changes(i, s, t) == progress[i].status = s /\ progress'[i].status = t

\* an iteration dispatches step i and executeStep throws before it suspends: the
\* entry is written in-progress and then failed by the same iteration
ThrownAtDispatch(i) ==
    /\ \E r \in Runs : Iterate(r) \/ GuardPoll(r)
    /\ plan[i] # NoStep /\ ExecKind(plan[i]) = "throw"
    /\ progress'[i].status = "failed" /\ progress'[i].notes = ExecError(plan[i])

Selectable(i) == progress[i].status \in {"pending", "in-progress", "failed"}

C22_TerminalWriteSetsTimestamp ==
    [][\A i \in Ids :
        (progress'[i] # progress[i] /\ progress'[i].status \in {"done", "failed", "skipped"})
            => progress'[i].timestamp # ""
      ]_vars

\* C22 (amended): a progress write that puts an entry to done or failed sets a
\* non-empty timestamp on it; a write of any other status, skipped included,
\* leaves the entry with an empty timestamp.
C22_DoneAndFailedWritesSetTimestamp ==
    [][\A i \in Ids :
        progress'[i] # progress[i] =>
            IF progress'[i].status \in {"done", "failed"}
            THEN progress'[i].timestamp # ""
            ELSE progress'[i].timestamp = ""
      ]_vars

\* a task missing from PLAN.md was recorded skipped, without timestamp, while the
\* other entry was recorded with one
C22_Witness ==
    \E i, j \in Ids :
        /\ progress[i] = [status |-> "skipped", timestamp |-> "",
                          notes |-> "Step not found in PLAN.md"]
        /\ progress[j].status \in {"done", "failed"}
        /\ progress[j].timestamp = "ts"

\* the status of the row of i, "none" without row or without STATUS.md
StatusOf(i) == IF i \in parseState(progress) THEN progress[i].status ELSE "none"

\* C23 (as claimed): the manual reset can be applied to a task in any terminal
\* status (done, failed, skipped) as well as to an in-progress task.
C23_ResetAppliesToEveryTerminalStatus ==
    \A i \in Ids :
        (~Busy /\ StatusOf(i) \in {"done", "failed", "skipped", "in-progress"})
            => ENABLED resetStep(i)

\* C23 (amended): the manual reset can be applied to a task whose status is done,
\* failed or in-progress, and to no other (not to a skipped or pending one); it
\* sets the status of that task to pending with empty timestamp and notes and
\* changes no other entry, no lease and nothing of the run.
C23_ResetAppliesToDoneFailedInProgress ==
    /\ [](\A i \in Ids :
            ~Busy => (ENABLED resetStep(i) <=>
                         StatusOf(i) \in {"done", "failed", "in-progress"}))
    /\ [][\A i \in Ids :
            resetStep(i) =>
                /\ progress'[i] = [status |-> "pending", timestamp |-> "", notes |-> ""]
                /\ \A j \in Ids \ {i} : progress'[j] = progress[j]
                /\ UNCHANGED <<plan, lease, evidence, delegated, isRunning, cancelToken,
                               pc, loopsExecuted, cur, elapsed>>
         ]_vars

\* a failed task was reset: its entry is pending again with nothing in it, its
\* lease still reads completed; the other entry is skipped and cannot be reset
C23_Witness ==
    \E i, j \in Ids :
        /\ progress[i] = [status |-> "pending", timestamp |-> "", notes |-> ""]
        /\ getTaskStatus(lease, i) = "completed"
        /\ progress[j].status = "skipped"
        /\ ~Busy

\* the entries of id that a read of the document returns
EntriesOf(doc, id) == SelectSeq(parseStateText(doc), LAMBDA e : e.id = id)

\* C24 (as claimed): updateStepStatus(id, status, notes) rewrites only the entry of
\* id and preserves every other entry, and a read made right after it returns an
\* entry for id with the written status, for every id that has an entry and every
\* notes text the orchestrator writes.
C24_UpdateRewritesOnlyItsRow ==
    [][\A stepId \in Ids : \A w \in StatusWrites :
        (UpdateStepStatusCall(stepId, w[1], w[2]) /\ EntriesOf(store.doc, stepId) # <<>>) =>
            /\ \A j \in Ids \ {stepId} : EntriesOf(store'.doc, j) = EntriesOf(store.doc, j)
            /\ EntriesOf(store'.doc, stepId) # <<>>
            /\ EntriesOf(store'.doc, stepId)[1].status = w[1]
      ]_allVars

\* C25: for a copilot_task step verifyStepAlreadyDone returns false whatever the
\* workspace holds, so the entry of such a step is never written done by the skip
\* path: it is written done only by the recording of a wait that a run began
\* after dispatching the step, when a poll read completed in its lease.
C25_CopilotTaskNeverSkippedAsDone ==
    [][\A i \in Ids :
        (plan[i] # NoStep /\ plan[i].action = "copilot_task") =>
            /\ \A E \in SUBSET Ids : ~verifyStepAlreadyDone(plan[i], i, E)
            /\ \A r \in Runs : (Iterate(r) \/ GuardPoll(r)) => progress'[i].status # "done"
                                                                \/ progress'[i] = progress[i]
            /\ (progress'[i] # progress[i] /\ progress'[i].status = "done") =>
                  /\ progress'[i].notes = ""
                  /\ \E r \in Runs : /\ Poll(r) /\ pc[r] = "waiting" /\ cur[r] = i
                                     /\ getTaskStatus(lease, i) = "completed"
      ]_vars

\* a copilot_task step is done after its dispatch while the outcome of the other
\* step was found in the workspace and recorded by the skip path
C25_Witness ==
    \E i, j \in Ids :
        /\ plan[i] = Step("copilot_task", TRUE)
        /\ progress[i] = [status |-> "done", timestamp |-> "ts", notes |-> ""]
        /\ getTaskStatus(lease, i) = "completed"
        /\ progress[j].notes = "Verified already complete"

C27_StatusIsTheExactLiteral ==
    [][GetTaskStatusCall =>
          store'.read = IF store.content \in {"inprogress", "completed"}
                        THEN store.content ELSE "none"
      ]_allVars

\* C27 (amended): getTaskStatus returns inprogress or completed exactly when the
\* status file holds that literal with nothing but whitespace (blanks, newlines)
\* before and after it, and none for every other content and for a file that is
\* absent or cannot be read.
C27_StatusIsTheTrimmedLiteral ==
    [][GetTaskStatusCall =>
          store'.read =
              CASE store.content \in {"inprogress", "inprogress\n", " inprogress "} -> "inprogress"
                [] store.content \in {"completed", "completed\n", " completed"} -> "completed"
                [] OTHER -> "none"
      ]_allVars

\* the file holds completed followed by a newline and was read as completed
C27_Witness ==
    /\ store.kind = "status file"
    /\ store.content = "completed\n"
    /\ store.read = "completed"

\* the kinds of event the claim lists
ClaimedKinds ==
    {"onDidChangeTextDocument", "onDidSaveTextDocument", "onDidCreateFiles",
     "onDidDeleteFiles", "onDidRenameFiles", "onDidChangeActiveTextEditor"}

\* C28 (as claimed): no event whose target is the progress document (STATUS.md)
\* updates lastActivityTime, whatever its kind: text change, save, file create,
\* delete, rename, change of the active editor.
C28_NoStatusMdEventCountsAsActivity ==
    [][\A kind \in ClaimedKinds :
        TrackerEvent(kind, "file:/ws/STATUS.md") =>
            store'.lastActivityTime = store.lastActivityTime
      ]_allVars

\* C28 (amended): a text-change or save event whose target is the progress
\* document does not update lastActivityTime; a file create, delete or rename
\* event and a change of the active editor to the progress document do update it,
\* as for any other file.
C28_StatusMdExcludedFromEditsAndSaves ==
    [][\A kind \in ClaimedKinds :
        TrackerEvent(kind, "file:/ws/STATUS.md") =>
            store'.lastActivityTime =
                IF kind \in {"onDidChangeTextDocument", "onDidSaveTextDocument"}
                THEN store.lastActivityTime ELSE store.now
      ]_allVars

\* STATUS.md was saved just now, and the tracker has been idle for some time
C28_Witness ==
    /\ store.kind = "tracker"
    /\ store.event = [kind |-> "onDidSaveTextDocument", target |-> "file:/ws/STATUS.md",
                      at |-> store.now]
    /\ getIdleTimeMs(store) > 0

\* C29: a task is handed to the executor only by a step in which ensureNoActiveTask
\* has returned (no lease read inprogress when it looked, or its timeout elapsed
\* and it cleared the stale lease), setInProgress was called for the task and its
\* progress entry was written in-progress; so when the executor has the task, its
\* lease reads inprogress, its progress entry is in-progress and no other lease
\* reads inprogress.
C29_DispatchOrder ==
    [][\A r \in Runs :
        ((Iterate(r) \/ GuardPoll(r)) /\ pc'[r] \in {"sending", "terminal"}) =>
            LET i == cur'[r]
                timedOut == pc[r] = "guard" /\ isAnyInProgress(lease)
                            /\ elapsed[r] + COPILOT_RESPONSE_POLL_MS >= COPILOT_TIMEOUT_MS
            IN  /\ ~isAnyInProgress(lease) \/ timedOut
                /\ getTaskStatus(lease', i) = "inprogress"
                /\ progress'[i] = [status |-> "in-progress", timestamp |-> "", notes |-> ""]
                /\ \A j \in Ids \ {i} : getTaskStatus(lease', j) # "inprogress"
                /\ \A j \in Ids \ {i} : progress'[j] = progress[j]
                /\ ExecKind(plan[i]) = "copilot" <=> i \in delegated'
      ]_vars

\* the second task has been handed to the delegate after the first one was
\* executed and released
C29_Witness ==
    \E r \in Runs :
        /\ pc[r] = "sending" /\ cur[r] = 2
        /\ loopsExecuted[r] = 1
        /\ getTaskStatus(lease, 2) = "inprogress"
        /\ progress[2].status = "in-progress"
        /\ getTaskStatus(lease, 1) = "completed"
        /\ 2 \in delegated

\* C30 (as claimed): ensureNoActiveTask returns at once when no lease reads
\* inprogress; otherwise it sleeps poll after poll until none does or
\* copilotTimeoutMs has elapsed, and then clears the stale lease; whenever it
\* returns, no lease of the store reads inprogress, whatever the store held when
\* it was called.
C30_GuardReturnsWithNoActiveLease ==
    [][(GuardCall \/ GuardWake) =>
          /\ (store.pc = "call" /\ ~isAnyInProgress(store.lease)) =>
                store'.pc = "returned" /\ store'.lease = store.lease
          /\ (isAnyInProgress(store.lease) /\ ~store.cancelled
                 /\ store'.elapsed < COPILOT_TIMEOUT_MS) =>
                store'.pc = "sleeping" /\ store'.lease = store.lease
          /\ store'.pc = "returned" => ~isAnyInProgress(store'.lease)
      ]_allVars

\* C31: when verifyStepAlreadyDone returns true for the step an iteration has
\* selected, the iteration records the step done with the note 'Verified already
\* complete' and a timestamp, changes no other entry, writes no lease, hands
\* nothing to the delegate or to a terminal, counts one iteration and goes on to
\* the next iteration without the settle delay.
C31_VerifiedStepIsRecordedDoneWithoutDispatch ==
    [][\A r \in Runs : \A i \in Ids :
        (/\ Iterate(r) /\ LoopCondition(r) /\ ~IsCancellationRequested
         /\ Lowest(NotDoneNotSkipped, i)
         /\ plan[i] # NoStep
         /\ verifyStepAlreadyDone(plan[i], i, evidence)) =>
            /\ progress'[i] = [status |-> "done", timestamp |-> "ts",
                               notes |-> "Verified already complete"]
            /\ \A j \in Ids \ {i} : progress'[j] = progress[j]
            /\ lease' = lease
            /\ delegated' = delegated
            /\ pc'[r] = "loop"
            /\ cur'[r] = cur[r]
            /\ loopsExecuted'[r] = loopsExecuted[r] + 1
            /\ quickStatus' = QuickStatusOf(progress')
      ]_vars

\* a run found the first step already done on its first iteration, and is now
\* waiting for the terminal of the second step: the first step has no lease
C31_Witness ==
    \E r \in Runs :
        /\ progress[1] = [status |-> "done", timestamp |-> "ts",
                          notes |-> "Verified already complete"]
        /\ lease[1] = NoFile
        /\ 1 \notin delegated
        /\ loopsExecuted[r] = 1
        /\ pc[r] = "terminal" /\ cur[r] = 2

\* ---- the runs under the scheduling of the extension host ---------------------------
\* The plans whose first step is one the idempotency probe can find done
\* (create_file or run_terminal with its payload): their runs take the skip
\* path, a prompt to the delegate, a terminal, and a step that throws at once.
LivePlans ==
    {p \in InitPlans : p[1] # NoStep /\ p[1].action \in {"create_file", "run_terminal"}
                                      /\ p[1].payload}

InitLive ==
    /\ hist = NoHist
    /\ plan \in LivePlans
    /\ progress \in InitProgress
    /\ InitRun
    /\ wait = NoWait
    /\ store = NoStore

\* A timer that is due fires, and a command sent to VS Code returns, once the
\* code that is running has suspended: the continuation of a suspended invocation
\* cannot be put off for ever by the commands of the operator that run in between
\* (the event loop takes the callbacks that are due in turn).
TimersFire == \A r \in Runs : SF_allVars(LoopStep(r) /\ UNCHANGED <<wait, store, hist>>)

SpecLive == InitLive /\ [][Next]_allVars /\ TimersFire

\* C32: under that scheduling every invocation of start() that got past the
\* startup returns, whatever the delegate, the workspace and the operator do: it
\* counts at most maxAutonomousLoops iterations, none of its waits (the guard, the
\* completion wait) sleeps again once copilotTimeoutMs has elapsed, and when it
\* returns isRunning is false; unless it is thrown out of the guard by a
\* cancellation, it returns through the code after the loop, which also clears
\* the cancellation token.
C32_EveryRunTerminates ==
    /\ \A r \in Runs : (pc[r] \notin {"idle", "prompt"}) ~> (pc[r] = "idle")
    /\ [](\A r \in Runs : /\ loopsExecuted[r] <= MAX_AUTONOMOUS_LOOPS
                          /\ elapsed[r] < COPILOT_TIMEOUT_MS)
    /\ [][\A r \in Runs :
            (LoopStep(r) /\ pc[r] # "idle" /\ pc'[r] = "idle") =>
                /\ ~isRunning'
                /\ pc[r] # "guard" => cancelToken' = "null"
         ]_allVars

\* every run has returned, the last one after the completion wait of the first
\* step timed out: the delegate still holds the prompt and never answered
C32_Witness ==
    /\ \A r \in Runs : pc[r] = "idle"
    /\ ~isRunning
    /\ 1 \in delegated
    /\ progress[1] = [status |-> "failed", timestamp |-> "ts", notes |-> TimeoutError(1)]
    /\ getTaskStatus(lease, 1) = "completed"

HandOver == store.kind = "send" /\ store.pc \in {"loop", "idle wait"} /\ store'.pc = "command"

\* C34 (as claimed): in the heuristic variant a prompt is handed to Copilot only
\* when the guard has returned, that is when no request is marked active and the
\* idle time has reached copilotIdleThresholdMs, or when the guard has waited for
\* copilotTimeoutMs; the activity clock is reset and the request marked active at
\* the hand-over; and copilotRequestActive is false whenever the loop is back at
\* Scheduling.
C34_PromptOnlyWhenIdleAndFlagClearedAtScheduling ==
    /\ [][HandOver =>
            LET slept == store.pc = "idle wait"
                idleMs == IF slept THEN Min(store.idle + COPILOT_RESPONSE_POLL_MS,
                                            COPILOT_IDLE_THRESHOLD_MS)
                          ELSE store.idle
                waited == IF slept THEN store.elapsed + COPILOT_RESPONSE_POLL_MS ELSE 0
            IN  /\ \/ ~store.active /\ idleMs >= COPILOT_IDLE_THRESHOLD_MS
                   \/ slept /\ waited >= COPILOT_TIMEOUT_MS
                /\ store'.idle = 0
                /\ store'.active
         ]_allVars
    /\ [](store.kind = "send" /\ store.pc = "loop" => ~store.active)

\* the invocations of startRalph that are past the startup and have not returned
ActiveRuns == {r \in Runs : pc[r] \notin {"idle", "prompt"}}

\* C35 (as claimed): at most one run loop exists at any time, and isRunning is true
\* only while a loop exists: a start() cannot begin a second loop while an
\* earlier, stopped loop is still suspended in one of its waits.
C35_AtMostOneRunLoop ==
    /\ Cardinality(ActiveRuns) <= 1
    /\ isRunning => ActiveRuns # {}

\* ---- the runs with their history ----------------------------------------------------
\* (SpecRuns) hist records what the program does not keep: the invocations whose
\* loop was running when stop() took effect (stopped), the tasks of which the
\* delegate still holds the prompt of a dispatch that is over (earlier), and the
\* tasks whose lease holds a completed written in answer to such a prompt (late).
InitRuns ==
    /\ plan \in LivePlans
    /\ progress \in InitProgress
    /\ InitRun
    /\ wait = NoWait
    /\ store = NoStore
    /\ hist = [kept |-> TRUE, stopped |-> {}, earlier |-> {}, late |-> {}]

\* the prompt of task i is sent to the delegate in this step, and the delegate
\* still holds the prompt of a dispatch of i that is over (no other invocation
\* is sending it or waiting for it)
PromptSent(i) ==
    /\ i \in delegated
    /\ \E r \in Runs :
          /\ pc[r] # "sending" /\ pc'[r] = "sending" /\ cur'[r] = i
          /\ \A q \in Runs \ {r} : ~(pc[q] \in {"sending", "waiting"} /\ cur[q] = i)

\* the history after a step: stopNow tells that the step is a stop() of a running
\* orchestrator, answered is the task the delegate answers in it (Null: none)
HistAfter(stopNow, answered) ==
    hist' = [kept |-> TRUE,
             stopped |-> {r \in hist.stopped \cup (IF stopNow THEN ActiveRuns ELSE {}) :
                            pc'[r] # "idle"},
             earlier |-> (hist.earlier \cup {i \in Ids : PromptSent(i)}) \ {answered},
             late |-> IF answered # Null
                      THEN IF answered \in hist.earlier THEN hist.late \cup {answered}
                           ELSE hist.late \ {answered}
                      ELSE {i \in hist.late : lease'[i] = lease[i] /\ progress'[i] = progress[i]}]

NextRuns ==
    \/ \E r \in Runs : startRalph(r) /\ HistAfter(FALSE, Null) /\ UNCHANGED <<wait, store>>
    \/ \E r \in Runs : \E action \in PromptAnswers :
          PromptAnswer(r, action) /\ HistAfter(FALSE, Null) /\ UNCHANGED <<wait, store>>
    \/ \E r \in Runs : Iterate(r) /\ HistAfter(FALSE, Null) /\ UNCHANGED <<wait, store>>
    \/ \E r \in Runs : GuardPoll(r) /\ HistAfter(FALSE, Null) /\ UNCHANGED <<wait, store>>
    \/ \E r \in Runs : SendDone(r) /\ HistAfter(FALSE, Null) /\ UNCHANGED <<wait, store>>
    \/ \E r \in Runs : Poll(r) /\ HistAfter(FALSE, Null) /\ UNCHANGED <<wait, store>>
    \/ \E r \in Runs : TerminalDone(r) /\ HistAfter(FALSE, Null) /\ UNCHANGED <<wait, store>>
    \/ stopRalph /\ HistAfter(isRunning, Null) /\ UNCHANGED <<wait, store>>
    \/ \E i \in Ids : resetStep(i) /\ HistAfter(FALSE, Null) /\ UNCHANGED <<wait, store>>
    \/ \E i \in Ids : DelegateComplete(i) /\ HistAfter(FALSE, i) /\ UNCHANGED <<wait, store>>
    \/ \E i \in Ids : WorkspaceChange(i) /\ HistAfter(FALSE, Null) /\ UNCHANGED <<wait, store>>
    \/ Crash /\ HistAfter(FALSE, Null) /\ UNCHANGED <<wait, store>>

SpecRuns == InitRuns /\ [][NextRuns]_allVars

\* run r begins the dispatch of a task in this step: it writes the lease and hands
\* the task to the delegate or to a terminal, or the task throws at once
Dispatches(r) ==
    \/ pc[r] \in {"loop", "settle", "guard"} /\ pc'[r] \in {"sending", "terminal"}
    \/ /\ Iterate(r) \/ GuardPoll(r)
       /\ pc'[r] = "settle"
       /\ \E i \in Ids : progress'[i] # progress[i] /\ progress'[i].status = "failed"

\* C36 (as claimed): once stop() has been invoked on a running loop, that loop
\* dispatches no further task and records no task done other than the one that
\* was in flight, even if start() is invoked again before the loop has observed
\* the cancellation.
C36_StoppedLoopDispatchesNothing ==
    [][\A r \in hist.stopped :
          /\ ~Dispatches(r)
          /\ (Iterate(r) \/ GuardPoll(r)) =>
                \A i \in Ids : progress'[i].status = "done" => progress'[i] = progress[i]
      ]_allVars

\* C37 (as claimed): a completion wait succeeds only on a completed written by
\* the delegate of the same dispatch; a completed written in answer to the prompt
\* of an earlier dispatch of the task, which timed out, never makes the later
\* dispatch be recorded done.
C37_LateWriteNeverCompletesLaterDispatch ==
    [][\A r \in Runs :
          (Poll(r) /\ pc'[r] = "settle" /\ progress'[cur[r]].status = "done") =>
              cur[r] \notin hist.late
      ]_allVars

\* C38 (as claimed): in every reachable state, after a crash and after a manual
\* reset during a run as well, a task whose lease reads inprogress has the
\* progress status in-progress.
C38_InprogressLeaseHasInProgressEntry ==
    \A i \in Ids :
        getTaskStatus(lease, i) = "inprogress" => progress[i].status = "in-progress"

\* C39 (as claimed): however a run ends (plan exhausted, loop bound reached,
\* plan not parsed, cancellation seen between iterations, in the pre-dispatch
\* guard or in the completion wait), the orchestrator is left in the same idle
\* state: once no invocation of start() is in progress, isRunning is false and
\* the cancellation token is cleared.
C39_EveryEndLeavesTheIdleState ==
    (\A r \in Runs : pc[r] = "idle") => (~isRunning /\ cancelToken = "null")

\* C40: when the selected progress entry has an id that no step of the loaded
\* plan has, the iteration records the entry skipped with the note 'Step not
\* found in PLAN.md', changes no other entry, writes no lease, hands nothing to
\* the delegate or a terminal, counts toward the loop bound and goes back to the
\* loop head; a skipped entry is never written again and is never the step an
\* invocation works on.
C40_EntryWithoutPlanStepIsSkipped ==
    /\ [][\A r \in Runs : \A i \in Ids :
            (/\ Iterate(r) /\ LoopCondition(r) /\ ~IsCancellationRequested
             /\ Lowest(NotDoneNotSkipped, i) /\ plan[i] = NoStep) =>
                /\ progress'[i].status = "skipped"
                /\ progress'[i].notes = "Step not found in PLAN.md"
                /\ \A j \in Ids \ {i} : progress'[j] = progress[j]
                /\ lease' = lease
                /\ delegated' = delegated
                /\ cur' = cur
                /\ pc'[r] = "loop"
                /\ loopsExecuted'[r] = loopsExecuted[r] + 1
       ]_allVars
    /\ [][\A i \in Ids :
            (progress # AbsentDoc /\ progress[i].status = "skipped") =>
                /\ progress'[i] = progress[i]
                /\ \A r \in Runs : cur'[r] = i => cur[r] = i
       ]_allVars
    /\ [](\A i \in Ids : \A r \in Runs :
            (progress # AbsentDoc /\ progress[i].status = "skipped") => cur[r] # i)

\* the first entry has been skipped for want of a plan step, without a lease, and
\* the loop has gone on to the second entry
C40_Witness ==
    \E r \in Runs :
        /\ plan[1] = NoStep
        /\ progress[1].status = "skipped"
        /\ progress[1].notes = "Step not found in PLAN.md"
        /\ lease[1] = NoFile
        /\ loopsExecuted[r] = 2
        /\ progress[2].status \in {"done", "failed"}

====
